---------------------------- MODULE Spec2Model ----------------------------
(***************************************************************************)
(* Command interpretation and table mutation engine of TestTable1:        *)
(* AIAgent (utils/aiAgent.ts) driven by App.handleSendMessage (App.tsx)   *)
(* and ChatComponent.handleSend (components/ChatComponent.tsx).           *)
(*                                                                         *)
(* Text is modelled character by character on TLA+ strings (TLC applies   *)
(* Len, SubSeq, Head, Tail and \o to strings).  The three non-ASCII       *)
(* glyphs of the source's message literals are written "(!)" (warning     *)
(* sign), "(ok)" (check mark) and "*" (bullet).                           *)
(***************************************************************************)
EXTENDS Integers, Sequences, FiniteSets, TLC

(***************************************************************************)
(* Bounds of the model.                                                    *)
(***************************************************************************)
\* Number of messages the user sends in one behaviour (so at most that many
\* requests await the provider at once).
MaxDispatches == 2

(***************************************************************************)
(* JavaScript strings.                                                     *)
(***************************************************************************)
Ch(s, i) == SubSeq(s, i, i)

\* The whitespace characters (\s, String.prototype.trim) that occur in the
\* modelled texts.
WS == {" ", "\t", "\n"}

IsDigit(c) == c \in {"0", "1", "2", "3", "4", "5", "6", "7", "8", "9"}

DigitVal(c) ==
  CASE c = "0" -> 0 [] c = "1" -> 1 [] c = "2" -> 2 [] c = "3" -> 3
    [] c = "4" -> 4 [] c = "5" -> 5 [] c = "6" -> 6 [] c = "7" -> 7
    [] c = "8" -> 8 [] c = "9" -> 9

DigitChar(d) == Ch("0123456789", d + 1)

LowerChar(c) ==
  CASE c = "A" -> "a" [] c = "B" -> "b" [] c = "C" -> "c" [] c = "D" -> "d"
    [] c = "E" -> "e" [] c = "F" -> "f" [] c = "G" -> "g" [] c = "H" -> "h"
    [] c = "I" -> "i" [] c = "J" -> "j" [] c = "K" -> "k" [] c = "L" -> "l"
    [] c = "M" -> "m" [] c = "N" -> "n" [] c = "O" -> "o" [] c = "P" -> "p"
    [] c = "Q" -> "q" [] c = "R" -> "r" [] c = "S" -> "s" [] c = "T" -> "t"
    [] c = "U" -> "u" [] c = "V" -> "v" [] c = "W" -> "w" [] c = "X" -> "x"
    [] c = "Y" -> "y" [] c = "Z" -> "z" [] OTHER -> c

RECURSIVE ToLowerCase(_)
ToLowerCase(s) ==
  IF s = "" THEN "" ELSE LowerChar(Head(s)) \o ToLowerCase(Tail(s))

RECURSIVE TrimStart(_)
TrimStart(s) ==
  IF s # "" /\ Head(s) \in WS THEN TrimStart(Tail(s)) ELSE s

RECURSIVE TrimEnd(_)
TrimEnd(s) ==
  IF s # "" /\ Ch(s, Len(s)) \in WS
    THEN TrimEnd(SubSeq(s, 1, Len(s) - 1))
    ELSE s

Trim(s) == TrimEnd(TrimStart(s))

\* s.substring(i - 1) === p at that place
MatchesAt(s, i, p) ==
  i >= 1 /\ i + Len(p) - 1 <= Len(s) /\ SubSeq(s, i, i + Len(p) - 1) = p

StartsWith(s, p) == MatchesAt(s, 1, p)

Includes(s, p) == \E i \in 1..(Len(s) - Len(p) + 1) : MatchesAt(s, i, p)

\* The first place at or after i that holds no character of C (Len(s) + 1 when
\* the run reaches the end).
RECURSIVE SkipWhile(_, _, _)
SkipWhile(s, i, C) ==
  IF i <= Len(s) /\ Ch(s, i) \in C THEN SkipWhile(s, i + 1, C) ELSE i

\* The first place at or after i that holds a digit no more: the end of (\d+).
RECURSIVE SkipDigits(_, _)
SkipDigits(s, i) ==
  IF i <= Len(s) /\ IsDigit(Ch(s, i)) THEN SkipDigits(s, i + 1) ELSE i

\* The first place at or after i that holds a character of C.
RECURSIVE SkipUntil(_, _, _)
SkipUntil(s, i, C) ==
  IF i <= Len(s) /\ Ch(s, i) \notin C THEN SkipUntil(s, i + 1, C) ELSE i

\* The number a string of decimal digits writes.
RECURSIVE DigitsToNat(_)
DigitsToNat(s) ==
  IF s = "" THEN 0
  ELSE 10 * DigitsToNat(SubSeq(s, 1, Len(s) - 1)) + DigitVal(Ch(s, Len(s)))

NaN == [nan |-> TRUE, n |-> 0]

\* parseInt(s) without a radix, on a text that does not start with "0x":
\* leading whitespace, an optional sign, then the longest run of digits; NaN
\* when there is no digit.
ParseInt(str) ==
  LET s    == TrimStart(str)
      neg  == s # "" /\ Head(s) = "-"
      body == IF s # "" /\ Head(s) \in {"-", "+"} THEN Tail(s) ELSE s
      e    == SkipDigits(body, 1)
      mag  == DigitsToNat(SubSeq(body, 1, e - 1))
  IN  IF e = 1 THEN NaN
      ELSE [nan |-> FALSE, n |-> IF neg THEN 0 - mag ELSE mag]

\* String(n) of an integer.
RECURSIVE NatToString(_)
NatToString(n) ==
  IF n < 10 THEN DigitChar(n)
  ELSE NatToString(n \div 10) \o DigitChar(n % 10)

IntToString(n) == IF n < 0 THEN "-" \o NatToString(0 - n) ELSE NatToString(n)

\* numbers.join(', ')
RECURSIVE JoinInts(_)
JoinInts(ns) ==
  IF ns = <<>> THEN ""
  ELSE IF Len(ns) = 1 THEN IntToString(ns[1])
  ELSE IntToString(ns[1]) \o ", " \o JoinInts(Tail(ns))

\* str.split(/[,\s]+/) without the empty strings it yields at a leading or a
\* trailing separator (parseInt maps those to NaN and the filter drops them):
\* the maximal runs of characters that are no comma and no whitespace.
RECURSIVE SplitFrom(_, _)
SplitFrom(s, i) ==
  LET b == SkipWhile(s, i, WS \cup {","})
      e == SkipUntil(s, b, WS \cup {","})
  IN  IF b > Len(s) THEN <<>>
      ELSE <<SubSeq(s, b, e - 1)>> \o SplitFrom(s, e)

Split(s) == SplitFrom(s, 1)

(***************************************************************************)
(* JavaScript values, as JSON.parse yields them and as cells hold them.    *)
(* A number is an integer n, or n + 1/2 when frac (a number that is no     *)
(* integer).                                                               *)
(***************************************************************************)
JsUndefined == [t |-> "undefined", n |-> 0, frac |-> FALSE, s |-> "", a |-> <<>>]
JsInt(n)    == [t |-> "number", n |-> n, frac |-> FALSE, s |-> "", a |-> <<>>]
JsHalf(n)   == [t |-> "number", n |-> n, frac |-> TRUE, s |-> "", a |-> <<>>]
JsString(s) == [t |-> "string", n |-> 0, frac |-> FALSE, s |-> s, a |-> <<>>]
JsArray(a)  == [t |-> "array", n |-> 0, frac |-> FALSE, s |-> "", a |-> a]

\* ToBoolean(v)
Truthy(v) ==
  CASE v.t = "undefined" -> FALSE
    [] v.t = "number"    -> v.frac \/ v.n # 0
    [] v.t = "string"    -> v.s # ""
    [] OTHER             -> TRUE

\* typeof v === 'number'
IsNumber(v) == v.t = "number"

\* idx === v, for an array index idx
IndexIs(idx, v) == v.t = "number" /\ ~v.frac /\ v.n = idx

\* v >= 0 and v < len, for a number v
AtLeastZero(v) == v.n >= 0
LessThan(v, len) == v.n < len

\* A value that is a whole number (Number.isInteger).
IsInteger(v) == v.t = "number" /\ ~v.frac

(***************************************************************************)
(* types/index.ts: TableCell and TableData.  A TableData-or-null is the    *)
(* empty sequence (null) or a one-element sequence holding the table.      *)
(***************************************************************************)
Null == <<>>
Some(d) == <<d>>

TableCell(id, value, row, col) ==
  [id |-> id, value |-> value, row |-> row, col |-> col]

TableData(headers, rows) == [headers |-> headers, rows |-> rows]

\* The seed table of App: ids are nine draws of generateId, here distinct.
SeedTable ==
  TableData(
    <<"Column A", "Column B", "Column C">>,
    << <<TableCell(1, JsInt(42), 0, 0), TableCell(2, JsInt(73), 0, 1),
         TableCell(3, JsInt(18), 0, 2)>>,
       <<TableCell(4, JsInt(91), 1, 0), TableCell(5, JsInt(35), 1, 1),
         TableCell(6, JsInt(67), 1, 2)>>,
       <<TableCell(7, JsInt(24), 2, 0), TableCell(8, JsInt(89), 2, 1),
         TableCell(9, JsInt(56), 2, 2)>> >>)

\* The number of ids the seed table took.
SeedIds == 9

(***************************************************************************)
(* AIAgent: construction, ids, cells, status.                              *)
(***************************************************************************)
\* constructor: isConfigured, from the key of the environment
KeyIsUsable(apiKey) == apiKey # "" /\ apiKey # "your_openai_api_key_here"

createCell(id, value, row, col) == TableCell(id, value, row, col)

\* A variant that reads the configuration alone
\* (return this.isConfigured ? 'configured' : 'not_configured').
getApiStatusKeyOnly(configured, quota) ==
  IF configured THEN "configured" ELSE "not_configured"

\* if (!this.isConfigured) return 'not_configured';
\* if (this.hasQuotaIssue) return 'quota_exceeded'; return 'configured'
getApiStatus(configured, quota) ==
  IF ~configured THEN "not_configured"
  ELSE IF quota THEN "quota_exceeded"
  ELSE "configured"

(***************************************************************************)
(* AIAgent.executeAction.  ids and rnd are the draws of Math.random the    *)
(* call makes: ids[i] for the i-th generateId, rnd[i] in 0..99 for the     *)
(* i-th Math.floor(Math.random() * 100).  The result is the TableData or   *)
(* null returned, or threw when a TypeError leaves the call.               *)
(***************************************************************************)
Returned(d) == [threw |-> FALSE, newData |-> d]
Threw == [threw |-> TRUE, newData |-> Null]

NoParameters ==
  [t |-> "undefined", values |-> JsUndefined, row |-> JsUndefined,
   col |-> JsUndefined, value |-> JsUndefined, header |-> JsUndefined]

\* `Column ${currentData.headers.length + 1}`
DefaultHeader(currentData) ==
  "Column " \o IntToString(Len(currentData.headers) + 1)

\* rows.map(row => row.map((cell, cIdx) => cIdx === col ? {...cell, value} : cell))
\* on the rows whose index rIdx is in onRows
SetValue(rows, onRows, col, value) ==
  [r \in 1..Len(rows) |->
     IF (r - 1) \in onRows
       THEN [c \in 1..Len(rows[r]) |->
               IF IndexIs(c - 1, col)
                 THEN [rows[r][c] EXCEPT !.value = value]
                 ELSE rows[r][c]]
       ELSE rows[r]]

\* A variant that renumbers the row attribute of the cells that stay.
RemoveRowRenumbered(rows, idx, row) ==
  LET kept == SubSeq(rows, 1, row.n) \o SubSeq(rows, row.n + 2, Len(rows))
  IN  [i \in 1..Len(kept) |->
         [j \in 1..Len(kept[i]) |-> [kept[i][j] EXCEPT !.row = i - 1]]]

\* currentData.rows.filter((_, index) => index !== row)
RECURSIVE RemoveRow(_, _, _)
RemoveRow(rows, idx, row) ==
  IF rows = <<>> THEN <<>>
  ELSE (IF IndexIs(idx, row) THEN <<>> ELSE <<Head(rows)>>)
         \o RemoveRow(Tail(rows), idx + 1, row)

\* A variant that puts the new row first
\* ({ ...currentData, rows: [newRow, ...currentData.rows] }).
AppendRowFirst(currentData, values, ids) ==
  [currentData EXCEPT !.rows =
     <<[i \in 1..Len(values) |->
          createCell(ids[i], values[i], Len(currentData.rows), i - 1)]>>
       \o currentData.rows]

\* { ...currentData, rows: [...currentData.rows, newRow] }
AppendRow(currentData, values, ids) ==
  [currentData EXCEPT !.rows =
     Append(currentData.rows,
            [i \in 1..Len(values) |->
               createCell(ids[i], values[i], Len(currentData.rows), i - 1)])]

\* { ...currentData, headers: [...headers, newHeader], rows: rows.map(row =>
\*   [...row, createCell(floor(random * 100) + 1, row[0].row, headers.length)]) }
\* row[0].row throws a TypeError on a row without cells.
AppendColumn(currentData, newHeader, ids, rnd) ==
  IF \E r \in 1..Len(currentData.rows) : currentData.rows[r] = <<>>
    THEN Threw
    ELSE Returned(Some(
      [headers |-> Append(currentData.headers, newHeader),
       rows |-> [r \in 1..Len(currentData.rows) |->
                   Append(currentData.rows[r],
                          createCell(ids[r], JsInt(rnd[r] + 1),
                                     currentData.rows[r][1].row,
                                     Len(currentData.headers)))]]))

executeAction(action, parameters, currentData, ids, rnd) ==
  IF action \in {"add_row", "edit_cell", "delete_row", "add_column", "fill_column"}
       /\ parameters.t = "undefined"
    THEN Threw
  ELSE CASE action = "add_row" ->
         IF Truthy(parameters.values) /\ parameters.values.t = "array"
           THEN Returned(Some(AppendRow(currentData, parameters.values.a, ids)))
           ELSE Returned(Null)
    [] action = "edit_cell" ->
         IF IsNumber(parameters.row) /\ IsNumber(parameters.col)
              /\ IsNumber(parameters.value)
           THEN Returned(Some(
                  [currentData EXCEPT !.rows =
                     SetValue(currentData.rows,
                              {rIdx \in 0..(Len(currentData.rows) - 1) :
                                 IndexIs(rIdx, parameters.row)},
                              parameters.col, parameters.value)]))
           ELSE Returned(Null)
    [] action = "delete_row" ->
         IF IsNumber(parameters.row) /\ AtLeastZero(parameters.row)
              /\ LessThan(parameters.row, Len(currentData.rows))
           THEN Returned(Some(
                  [currentData EXCEPT !.rows =
                     RemoveRow(currentData.rows, 0, parameters.row)]))
           ELSE Returned(Null)
    [] action = "add_column" ->
         AppendColumn(currentData,
                      IF Truthy(parameters.header) THEN parameters.header.s
                      ELSE DefaultHeader(currentData),
                      ids, rnd)
    [] action = "fill_column" ->
         IF IsNumber(parameters.col) /\ IsNumber(parameters.value)
           THEN Returned(Some(
                  [currentData EXCEPT !.rows =
                     SetValue(currentData.rows,
                              0..(Len(currentData.rows) - 1),
                              parameters.col, parameters.value)]))
           ELSE Returned(Null)
    [] OTHER -> Returned(Null)

(***************************************************************************)
(* The regular expressions of AIAgent.fallbackProcessCommand, as           *)
(* String.prototype.match applies them: the leftmost match, alternatives   *)
(* tried in order, g the captured groups.  The quantified parts are taken  *)
(* greedily without giving back, which is what the engine ends with here:  *)
(* (\d+) is followed by a space or by nothing, (.+) by nothing, and \s+ is *)
(* applied to trimmed text, where a run of whitespace never ends the text. *)
(***************************************************************************)
NoMatch == [ok |-> FALSE, g |-> <<>>]
Match(groups) == [ok |-> TRUE, g |-> groups]

Lit(str)   == [k |-> "lit", s |-> str, a |-> <<>>]     \* literal text
Alt(strs)  == [k |-> "alt", s |-> "", a |-> strs]      \* (?:a|b)
DigitsGrp  == [k |-> "digits", s |-> "", a |-> <<>>]   \* (\d+)
Spaces     == [k |-> "spaces", s |-> "", a |-> <<>>]   \* \s+
RestGrp    == [k |-> "rest", s |-> "", a |-> <<>>]     \* (.+)

RECURSIVE MatchFrom(_, _, _, _)
MatchFrom(s, i, pat, g) ==
  IF pat = <<>> THEN Match(g)
  ELSE CASE Head(pat).k = "lit" ->
              IF MatchesAt(s, i, Head(pat).s)
                THEN MatchFrom(s, i + Len(Head(pat).s), Tail(pat), g)
                ELSE NoMatch
         [] Head(pat).k = "alt" ->
              IF Head(pat).a = <<>> THEN NoMatch
              ELSE IF MatchFrom(s, i, <<Lit(Head(Head(pat).a))>> \o Tail(pat), g).ok
                THEN MatchFrom(s, i, <<Lit(Head(Head(pat).a))>> \o Tail(pat), g)
                ELSE MatchFrom(s, i, <<Alt(Tail(Head(pat).a))>> \o Tail(pat), g)
         [] Head(pat).k = "digits" ->
              IF SkipDigits(s, i) > i
                THEN MatchFrom(s, SkipDigits(s, i), Tail(pat),
                               Append(g, SubSeq(s, i, SkipDigits(s, i) - 1)))
                ELSE NoMatch
         [] Head(pat).k = "spaces" ->
              IF SkipWhile(s, i, WS) > i
                THEN MatchFrom(s, SkipWhile(s, i, WS), Tail(pat), g)
                ELSE NoMatch
         [] Head(pat).k = "rest" ->
              IF SkipUntil(s, i, {"\n"}) > i
                THEN MatchFrom(s, SkipUntil(s, i, {"\n"}), Tail(pat),
                               Append(g, SubSeq(s, i, SkipUntil(s, i, {"\n"}) - 1)))
                ELSE NoMatch

\* s.match(pat): the match at the least place from i on
RECURSIVE SearchFrom(_, _, _)
SearchFrom(s, i, pat) ==
  IF i > Len(s) THEN NoMatch
  ELSE IF MatchFrom(s, i, pat, <<>>).ok THEN MatchFrom(s, i, pat, <<>>)
  ELSE SearchFrom(s, i + 1, pat)

RegexMatch(s, pat) == SearchFrom(s, 1, pat)

\* /add row\s+(.+)/
AddRowRegex == <<Lit("add row"), Spaces, RestGrp>>

\* /(?:set|change) row (\d+) (?:col|column) (\d+) to (\d+)/
CellRegex ==
  <<Alt(<<"set", "change">>), Lit(" row "), DigitsGrp, Lit(" "),
    Alt(<<"col", "column">>), Lit(" "), DigitsGrp, Lit(" to "), DigitsGrp>>

\* /delete row (\d+)/
DeleteRowRegex == <<Lit("delete row "), DigitsGrp>>

\* /add column\s+(.+)/
AddColumnRegex == <<Lit("add column"), Spaces, RestGrp>>

\* A variant that keeps every token, a token that is no number as 0
\* (.map(n => parseInt(n.trim()) || 0)).
ParseNumbersZeroed(tokens) ==
  [i \in 1..Len(tokens) |->
     IF ParseInt(Trim(tokens[i])).nan THEN 0 ELSE ParseInt(Trim(tokens[i])).n]

\* numberMatch[1].split(/[,\s]+/).map(n => parseInt(n.trim())).filter(n => !isNaN(n))
RECURSIVE ParseNumbers(_)
ParseNumbers(tokens) ==
  IF tokens = <<>> THEN <<>>
  ELSE LET v == ParseInt(Trim(Head(tokens)))
       IN  (IF v.nan THEN <<>> ELSE <<v.n>>) \o ParseNumbers(Tail(tokens))

(***************************************************************************)
(* The message texts of AIAgent.fallbackProcessCommand.                    *)
(***************************************************************************)
HelpStatusLine(apiStatus) ==
  CASE apiStatus = "configured" ->
         "(ok) OpenAI API configured - Enhanced AI available!"
    [] apiStatus = "quota_exceeded" ->
         "(!) OpenAI API quota exceeded - Check your billing at https://platform.openai.com/account/billing"
    [] OTHER ->
         "(!) OpenAI API not configured - Add your API key to .env file for enhanced AI."

HelpBody ==
  "\n\nAvailable commands:\n"
  \o "* add row [values] - Add a new row with specified values\n"
  \o "* set row X col Y to Z - Change a specific cell value\n"
  \o "* delete row X - Remove a row\n"
  \o "* add column [name] - Add a new column\n"
  \o "* fill column X with Y - Fill entire column with value\n"
  \o "* help - Show this help message\n\n"
  \o "Examples:\n"
  \o "* \"add row 10, 20, 30\"\n"
  \o "* \"set row 1 col 2 to 50\"\n"
  \o "* \"delete row 2\"\n\n"
  \o "With OpenAI configured, you can also use natural language like:\n"
  \o "* \"Make the first row all zeros\"\n"
  \o "* \"Add a column for prices\"\n"
  \o "* \"Change all values in column 2 to be double their current value\""

\* A variant whose switch has no case (configHint stays "").
ConfigHintNone(apiStatus) == ""

\* switch (apiStatus) { case 'quota_exceeded': ...; case 'not_configured': ... }
ConfigHint(apiStatus) ==
  CASE apiStatus = "quota_exceeded" -> " (OpenAI quota exceeded - check billing)"
    [] apiStatus = "not_configured" ->
         " (Configure OpenAI API key for better natural language understanding)"
    [] OTHER -> ""

UnrecognizedTail ==
  ". Try \"help\" to see available commands, or use phrases like:\n"
  \o "* \"add row 10, 20, 30\"\n"
  \o "* \"set row 1 col 2 to 50\"\n"
  \o "* \"delete row 2\""

(***************************************************************************)
(* AIAgent.fallbackProcessCommand: the rule-based interpreter.  The result *)
(* is {newData, response}, or threw when a TypeError leaves the call.      *)
(***************************************************************************)
Result(newData, response) ==
  [threw |-> FALSE, newData |-> newData, response |-> response]

Thrown == [threw |-> TRUE, newData |-> Null, response |-> ""]

\* if (lowerCommand.startsWith('add row')) { if (numberMatch) ... }
AddRowGuard(lowerCommand, numberMatch) ==
  StartsWith(lowerCommand, "add row") /\ numberMatch.ok

\* A variant that adds the row whatever the number of values
\* (without if (numbers.length === currentData.headers.length)).
fallbackAddRowAnyCount(numbers, currentData, ids) ==
  Result(Some(AppendRow(currentData,
                        [i \in 1..Len(numbers) |-> JsInt(numbers[i])], ids)),
         "Added new row with values: " \o JoinInts(numbers))

fallbackAddRow(numbers, currentData, ids) ==
  IF Len(numbers) = Len(currentData.headers)
    THEN Result(Some(AppendRow(currentData,
                               [i \in 1..Len(numbers) |-> JsInt(numbers[i])],
                               ids)),
                "Added new row with values: " \o JoinInts(numbers))
    ELSE Result(Null,
                "Please provide exactly "
                  \o IntToString(Len(currentData.headers))
                  \o " values for the new row.")

\* if (lowerCommand.includes('set row') || lowerCommand.includes('change row')) { if (cellMatch) ... }
SetCellGuard(lowerCommand, cellMatch) ==
  /\ Includes(lowerCommand, "set row") \/ Includes(lowerCommand, "change row")
  /\ cellMatch.ok

fallbackSetCell(rowIndex, colIndex, newValue, currentData) ==
  IF rowIndex >= 0 /\ rowIndex < Len(currentData.rows)
       /\ colIndex >= 0 /\ colIndex < Len(currentData.headers)
    THEN Result(Some([currentData EXCEPT !.rows =
                        SetValue(currentData.rows, {rowIndex},
                                 JsInt(colIndex), JsInt(newValue))]),
                "Updated row " \o IntToString(rowIndex + 1)
                  \o ", column " \o IntToString(colIndex + 1)
                  \o " to " \o IntToString(newValue))
    ELSE Result(Null,
                "Invalid row or column index. Use row 1-"
                  \o IntToString(Len(currentData.rows))
                  \o ", column 1-"
                  \o IntToString(Len(currentData.headers)) \o ".")

\* if (lowerCommand.startsWith('delete row')) { if (rowMatch) ... }
DeleteRowGuard(lowerCommand, rowMatch) ==
  StartsWith(lowerCommand, "delete row") /\ rowMatch.ok

fallbackDeleteRow(rowIndex, currentData) ==
  IF rowIndex >= 0 /\ rowIndex < Len(currentData.rows)
    THEN Result(Some([currentData EXCEPT !.rows =
                        RemoveRow(currentData.rows, 0, JsInt(rowIndex))]),
                "Deleted row " \o IntToString(rowIndex + 1))
    ELSE Result(Null,
                "Invalid row index. Use row 1-"
                  \o IntToString(Len(currentData.rows)) \o ".")

\* if (lowerCommand.startsWith('add column'))
AddColumnGuard(lowerCommand) == StartsWith(lowerCommand, "add column")

AddedColumn(added, newHeader) ==
  IF added.threw THEN Thrown
  ELSE Result(added.newData,
              "Added new column \"" \o newHeader \o "\" with random values")

fallbackAddColumn(newHeader, currentData, ids, rnd) ==
  AddedColumn(AppendColumn(currentData, newHeader, ids, rnd), newHeader)

\* if (lowerCommand.includes('help') || lowerCommand === 'commands')
HelpGuard(lowerCommand) ==
  Includes(lowerCommand, "help") \/ lowerCommand = "commands"

fallbackHelp(apiStatus) == Result(Null, HelpStatusLine(apiStatus) \o HelpBody)

fallbackUnrecognized(apiStatus) ==
  Result(Null,
         "I didn't understand that command" \o ConfigHint(apiStatus)
           \o UnrecognizedTail)

\* The body of fallbackProcessCommand, given lowerCommand and what its four
\* regular expressions match in it.
Interpret(lowerCommand, numberMatch, cellMatch, rowMatch, headerMatch, currentData, apiStatus, ids, rnd) ==
  IF AddRowGuard(lowerCommand, numberMatch)
    THEN fallbackAddRow(ParseNumbers(Split(numberMatch.g[1])), currentData, ids)
  ELSE IF SetCellGuard(lowerCommand, cellMatch)
    THEN fallbackSetCell(ParseInt(cellMatch.g[1]).n - 1,
                         ParseInt(cellMatch.g[2]).n - 1,
                         ParseInt(cellMatch.g[3]).n, currentData)
  ELSE IF DeleteRowGuard(lowerCommand, rowMatch)
    THEN fallbackDeleteRow(ParseInt(rowMatch.g[1]).n - 1, currentData)
  ELSE IF AddColumnGuard(lowerCommand)
    THEN fallbackAddColumn(IF headerMatch.ok THEN Trim(headerMatch.g[1])
                           ELSE DefaultHeader(currentData),
                           currentData, ids, rnd)
  ELSE IF HelpGuard(lowerCommand)
    THEN fallbackHelp(apiStatus)
  ELSE fallbackUnrecognized(apiStatus)

InterpretLower(lowerCommand, currentData, apiStatus, ids, rnd) ==
  Interpret(lowerCommand,
            RegexMatch(lowerCommand, AddRowRegex),
            RegexMatch(lowerCommand, CellRegex),
            RegexMatch(lowerCommand, DeleteRowRegex),
            RegexMatch(lowerCommand, AddColumnRegex),
            currentData, apiStatus, ids, rnd)

fallbackProcessCommand(command, currentData, apiStatus, ids, rnd) ==
  InterpretLower(Trim(ToLowerCase(command)), currentData, apiStatus, ids, rnd)

(***************************************************************************)
(* What the model provider's request comes back with: a rejection with an  *)
(* error {status, message} (status 0: none), or a completion whose content *)
(* is missing or blank ("empty"), is no JSON text ("invalid"), or is JSON  *)
(* text ("json") that JSON.parse turns into value.                         *)
(***************************************************************************)
JsonObject(action, parameters, message) ==
  [t |-> "object", action |-> action, parameters |-> parameters,
   message |-> message]

\* JSON null, and a JSON number or array (no property of theirs is defined)
JsonNull == [t |-> "null", action |-> JsUndefined, parameters |-> NoParameters,
             message |-> JsUndefined]
JsonNumber == [t |-> "number", action |-> JsUndefined,
               parameters |-> NoParameters, message |-> JsUndefined]

Parameters(values, row, col, value, header) ==
  [t |-> "object", values |-> values, row |-> row, col |-> col,
   value |-> value, header |-> header]

Rejection(status, message) ==
  [kind |-> "error", status |-> status, message |-> message,
   text |-> "", value |-> JsonNull]
Completion(text, value) ==
  [kind |-> "reply", status |-> 0, message |-> "", text |-> text,
   value |-> value]

(***************************************************************************)
(* AIAgent.processCommand.                                                 *)
(***************************************************************************)
\* What the promise settles with and the hasQuotaIssue it leaves.
Resolved(newData, response, quota) ==
  [rejected |-> FALSE, newData |-> newData, response |-> response,
   hasQuotaIssue |-> quota]
Rejected(quota) ==
  [rejected |-> TRUE, newData |-> Null, response |-> "", hasQuotaIssue |-> quota]

QuotaNotice == " (OpenAI API quota exceeded - using fallback mode)"
QuotaBanner ==
  "(!) OpenAI API quota exceeded. Please check your billing at https://platform.openai.com/account/billing\n\n"
UsingFallback == " (using fallback mode)"
Unavailable == " (OpenAI temporarily unavailable)"

\* A variant that tests the configuration alone (!this.isConfigured).
UsesFallbackOnlyUnconfigured(configured, quota) == ~configured

\* if (!this.isConfigured || this.hasQuotaIssue)
UsesFallbackOnly(configured, quota) == ~configured \/ quota

\* if (this.hasQuotaIssue && !fallbackResult.response.includes('quota'))
\*   fallbackResult.response += ...; return fallbackResult
FallbackOnlyResult(fallbackResult, quota) ==
  IF fallbackResult.threw THEN Rejected(quota)
  ELSE Resolved(fallbackResult.newData,
                IF quota /\ ~Includes(fallbackResult.response, "quota")
                  THEN fallbackResult.response \o QuotaNotice
                  ELSE fallbackResult.response,
                quota)

\* the branch taken when UsesFallbackOnly
processCommandFallback(command, currentData, configured, quota, ids, rnd) ==
  FallbackOnlyResult(
    fallbackProcessCommand(command, currentData,
                           getApiStatus(configured, quota), ids, rnd),
    quota)

\* The try block: what it returns, or the error it throws.
TryReturned(newData, response) ==
  [caught |-> FALSE, newData |-> newData, response |-> response,
   status |-> 0, message |-> ""]
TryThrew(status, message) ==
  [caught |-> TRUE, newData |-> Null, response |-> "", status |-> status,
   message |-> message]

\* The message of the TypeError a property read of undefined or null raises.
TypeErrorMessage == "Cannot read properties of undefined"

\* A variant that answers with the fixed text whatever the reply's message
\* (response: 'Action completed successfully').
ExecutedFixedText(executed, message) ==
  IF executed.threw THEN TryThrew(0, TypeErrorMessage)
  ELSE TryReturned(executed.newData, "Action completed successfully")

\* return { newData, response: aiResponse.message || 'Action completed successfully' }
Executed(executed, message) ==
  IF executed.threw THEN TryThrew(0, TypeErrorMessage)
  ELSE TryReturned(executed.newData,
                   IF Truthy(message) THEN message.s
                   ELSE "Action completed successfully")

TryBlock(outcome, currentData, ids, rnd) ==
  IF outcome.kind = "error" THEN TryThrew(outcome.status, outcome.message)
  ELSE IF outcome.text = "empty" THEN TryThrew(0, "No response from OpenAI")
  ELSE IF outcome.text = "invalid"
    THEN TryThrew(0, "Invalid response format from AI")
  ELSE IF outcome.value.t = "null" THEN TryThrew(0, TypeErrorMessage)
  ELSE Executed(executeAction(IF outcome.value.action.t = "string"
                                THEN outcome.value.action.s ELSE "",
                              outcome.value.parameters, currentData, ids, rnd),
                outcome.value.message)

\* A variant that knows the quota by the status code alone.
IsQuotaErrorByStatus(status, message) == status = 429

\* error?.status === 429 || error?.message?.includes('quota') ||
\* error?.message?.includes('billing')
IsQuotaError(status, message) ==
  status = 429 \/ Includes(message, "quota") \/ Includes(message, "billing")

\* A variant that assigns the flag from the error at hand
\* (this.hasQuotaIssue = isQuotaError).
QuotaAfterCatchAssigned(isQuotaError, quota) == isQuotaError

\* this.hasQuotaIssue after the catch block, entered with it being quota
QuotaAfterCatch(isQuotaError, quota) == IF isQuotaError THEN TRUE ELSE quota

\* What the catch block returns, fallbackResult being what
\* fallbackProcessCommand gave it.
CatchResult(isQuotaError, fallbackResult, quota) ==
  IF fallbackResult.threw THEN Rejected(QuotaAfterCatch(isQuotaError, quota))
  ELSE IF isQuotaError
    THEN Resolved(fallbackResult.newData,
                  QuotaBanner \o fallbackResult.response \o UsingFallback,
                  QuotaAfterCatch(isQuotaError, quota))
    ELSE Resolved(fallbackResult.newData,
                  fallbackResult.response \o Unavailable,
                  QuotaAfterCatch(isQuotaError, quota))

\* The catch block: hasQuotaIssue is set before the fallback runs, so the
\* fallback's getApiStatus() sees it.
CatchBlock(isQuotaError, command, currentData, configured, quota, ids, rnd) ==
  CatchResult(isQuotaError,
              fallbackProcessCommand(
                command, currentData,
                getApiStatus(configured, QuotaAfterCatch(isQuotaError, quota)),
                ids, rnd),
              quota)

\* try { ... } catch (error) { ... }
TryCatch(try, command, currentData, configured, quota, ids, rnd) ==
  IF try.caught
    THEN CatchBlock(IsQuotaError(try.status, try.message), command,
                    currentData, configured, quota, ids, rnd)
    ELSE Resolved(try.newData, try.response, quota)

\* The rest of processCommand once the awaited request has settled.
processCommandModel(command, currentData, outcome, configured, quota, ids, rnd) ==
  TryCatch(TryBlock(outcome, currentData, ids, rnd), command, currentData,
           configured, quota, ids, rnd)

(***************************************************************************)
(* Inputs: what the user types, what the provider answers, what            *)
(* Math.random draws.                                                      *)
(***************************************************************************)
\* import.meta.env.VITE_OPENAI_API_KEY ("": not set)
ApiKeys == {"", "your_openai_api_key_here", "sk-live-key"}

\* What the user types into the chat box.
UserInputs ==
  { "add row 10, 20, 30", "add column", "help", "xyz nonsense" }

AddRowReply(values) ==
  Completion("json",
    JsonObject(JsString("add_row"),
               Parameters(JsArray(values), JsUndefined, JsUndefined,
                          JsUndefined, JsUndefined),
               JsString("Added new row")))

EditCellReply(row, col, value) ==
  Completion("json",
    JsonObject(JsString("edit_cell"),
               Parameters(JsUndefined, row, col, value, JsUndefined),
               JsString("Updated cell")))

DeleteRowReply(row) ==
  Completion("json",
    JsonObject(JsString("delete_row"),
               Parameters(JsUndefined, row, JsUndefined, JsUndefined,
                          JsUndefined),
               JsString("Deleted row")))

AddColumnReply(header) ==
  Completion("json",
    JsonObject(JsString("add_column"),
               Parameters(JsUndefined, JsUndefined, JsUndefined, JsUndefined,
                          header),
               JsString("Added column")))

FillColumnReply(col, value) ==
  Completion("json",
    JsonObject(JsString("fill_column"),
               Parameters(JsUndefined, JsUndefined, col, value, JsUndefined),
               JsString("Filled column")))

NoneReply ==
  Completion("json", JsonObject(JsString("none"),
                                Parameters(JsUndefined, JsUndefined,
                                           JsUndefined, JsUndefined,
                                           JsUndefined),
                                JsString("The table has three columns.")))

\* What the provider answers.
ModelOutcomes ==
  { Rejection(429, "Rate limit reached for requests"),
    Rejection(0, "You exceeded your current quota, please check your plan"),
    Rejection(0, "Your billing hard limit has been reached"),
    Rejection(500, "The server had an error while processing your request"),
    Completion("empty", JsonNull),
    Completion("invalid", JsonNull),
    Completion("json", JsonNull),
    AddRowReply(<<JsInt(10), JsInt(20), JsInt(30)>>),
    AddRowReply(<<>>),
    NoneReply }

\* What Math.random draws in one call.  generateId(): the first id drawn is
\* first, the later ones are ids no cell has had (next + 1, next + 2, ...).
\* Math.floor(Math.random() * 100): every draw of the call gives floor.
IdStream(next, first) ==
  [i \in Nat \ {0} |-> IF i = 1 THEN first ELSE next + i - 1]
RndStream(floor) == [i \in Nat \ {0} |-> floor]

Draw(first, floor) == [first |-> first, floor |-> floor]

\* Ids that no cell has had, and the least floor.
PlainDraws(next) == {Draw(next, 0)}

\* The same, or the id of the seed table's first cell drawn again, with either
\* end of the floors 0..99.
AnyDraws(next) == {Draw(first, floor) : first \in {next, 1}, floor \in {0, 99}}

\* A draw written before the least free id is known, its first being 0 for
\* "an id no cell has had", read at the least free id next.
DrawAt(draw, next) ==
  Draw(IF draw.first = 0 THEN next ELSE draw.first, draw.floor)

\* The ids of a table's cells, and the least id above them and above next.
CellIds(data) ==
  UNION {{data.rows[r][c].id : c \in 1..Len(data.rows[r])} :
           r \in 1..Len(data.rows)}

NextFree(next, newData) ==
  IF newData = Null THEN next
  ELSE LET above == {next} \cup {id + 1 : id \in CellIds(newData[1])}
       IN  CHOOSE m \in above : \A k \in above : k <= m

(***************************************************************************)
(* State.                                                                  *)
(***************************************************************************)
VARIABLES
  tableData,      \* App: the tableData state
  isConfigured,   \* AIAgent.isConfigured
  hasQuotaIssue,  \* AIAgent.hasQuotaIssue
  isLoading,      \* ChatComponent: the isLoading state
  inFlight,       \* processCommand calls awaiting the provider's answer
  sent,           \* messages sent so far
  nextId,         \* the least id no cell has had
  last,           \* the processCommand call that settled last
  chatMessages,   \* App: the chatMessages state
  timers,         \* App: the AI messages whose setTimeout(..., 300) is pending
  editingCell,    \* TableComponent: the editingCell state
  editValue,      \* TableComponent: the editValue state
  lastEdit        \* the saveEdit call that ran last

vars ==
  <<tableData, isConfigured, hasQuotaIssue, isLoading, inFlight, sent,
    nextId, last, chatMessages, timers, editingCell, editValue, lastEdit>>

\* TableComponent's own state and the record of its last saveEdit
editVars == <<editingCell, editValue, lastEdit>>

\* types/index.ts ChatMessage, without id and timestamp; n is the number of
\* the handleSendMessage call that built the message.
ChatMessage(sender, n, content) ==
  [sender |-> sender, n |-> n, content |-> content]

ErrorContent ==
  "Sorry, I encountered an error processing your request. Please try again."

\* A variant without the catch's text: the message carries the response
\* whatever became of the call.
AiMessageResponseOnly(n, settled) == ChatMessage("ai", n, settled.response)

\* App.handleSendMessage after the await: aiMessage with the response in its
\* try, errorMessage in its catch.
AiMessage(n, settled) ==
  ChatMessage("ai", n,
              IF settled.rejected THEN ErrorContent ELSE settled.response)

NoEdit ==
  [n |-> 0, editingCell |-> <<>>, editValue |-> "", tableBefore |-> SeedTable,
   called |-> FALSE, tableAfter |-> SeedTable]

NoOutcome == Completion("none", JsonNull)

NoCall ==
  [n |-> 0, path |-> "none", command |-> "", currentData |-> SeedTable,
   tableBefore |-> SeedTable, statusAtStart |-> "", statusBefore |-> "",
   statusAfter |-> "", outcome |-> NoOutcome, next |-> 0,
   rejected |-> FALSE, newData |-> Null, response |-> ""]

\* App: const [aiAgent] = useState(() => new AIAgent()), and the seed table
Init ==
  /\ tableData = SeedTable
  /\ \E apiKey \in ApiKeys : isConfigured = KeyIsUsable(apiKey)
  /\ hasQuotaIssue = FALSE
  /\ isLoading = FALSE
  /\ inFlight = {}
  /\ sent = 0
  /\ nextId = SeedIds + 1
  /\ last = NoCall
  /\ chatMessages = <<>>
  /\ timers = {}
  /\ editingCell = Null
  /\ editValue = ""
  /\ lastEdit = NoEdit

\* App.handleSendMessage after the await: if (newData) setTableData(newData);
\* a rejection goes to its catch, which leaves the table alone.
Installed(settled, table) ==
  IF ~settled.rejected /\ settled.newData # Null
    THEN settled.newData[1] ELSE table

\* ChatComponent.handleSend: if (input.trim() && !isLoading)
CanSend(input) == Trim(input) # "" /\ ~isLoading

(***************************************************************************)
(* ChatComponent.handleSend -> App.handleSendMessage ->                    *)
(* AIAgent.processCommand while the agent uses the fallback only: the call *)
(* never awaits, so the message is processed and the table installed       *)
(* before anything else runs.                                              *)
(***************************************************************************)
SendFallback(input, draw) ==
  /\ CanSend(input)
  /\ UsesFallbackOnly(isConfigured, hasQuotaIssue)
  /\ \E settled \in {processCommandFallback(Trim(input), tableData,
                                              isConfigured, hasQuotaIssue,
                                              IdStream(nextId, draw.first),
                                              RndStream(draw.floor))} :
         /\ tableData' = Installed(settled, tableData)
         /\ hasQuotaIssue' = settled.hasQuotaIssue
         /\ nextId' = NextFree(nextId, settled.newData)
         /\ last' = [n |-> sent + 1, path |-> "fallback",
                     command |-> Trim(input), currentData |-> tableData,
                     tableBefore |-> tableData,
                     statusAtStart |-> getApiStatus(isConfigured, hasQuotaIssue),
                     statusBefore |-> getApiStatus(isConfigured, hasQuotaIssue),
                     statusAfter |->
                       getApiStatus(isConfigured, settled.hasQuotaIssue),
                     outcome |-> NoOutcome, next |-> nextId,
                     rejected |-> settled.rejected,
                     newData |-> settled.newData,
                     response |-> settled.response]
         /\ timers' = timers \cup {AiMessage(sent + 1, settled)}
  /\ chatMessages' =
       Append(chatMessages, ChatMessage("user", sent + 1, Trim(input)))
  /\ isLoading' = TRUE
  /\ sent' = sent + 1
  /\ UNCHANGED <<isConfigured, inFlight, editVars>>

(***************************************************************************)
(* The same with the model path open: processCommand reads the table into  *)
(* the request and awaits the provider.                                    *)
(***************************************************************************)
SendModel(input) ==
  /\ CanSend(input)
  /\ ~UsesFallbackOnly(isConfigured, hasQuotaIssue)
  /\ inFlight' = inFlight \cup
       {[n |-> sent + 1, command |-> Trim(input), currentData |-> tableData,
         statusAtStart |-> getApiStatus(isConfigured, hasQuotaIssue)]}
  /\ chatMessages' =
       Append(chatMessages, ChatMessage("user", sent + 1, Trim(input)))
  /\ isLoading' = TRUE
  /\ sent' = sent + 1
  /\ UNCHANGED <<tableData, isConfigured, hasQuotaIssue, nextId, last,
                 timers, editVars>>

(***************************************************************************)
(* The provider's answer to one awaited request arrives: the rest of       *)
(* processCommand runs, then the rest of App.handleSendMessage.            *)
(***************************************************************************)
Settle(call, outcome, draw) ==
  /\ call \in inFlight
  /\ \E settled \in {processCommandModel(call.command, call.currentData,
                                           outcome, isConfigured,
                                           hasQuotaIssue,
                                           IdStream(nextId, draw.first),
                                           RndStream(draw.floor))} :
         /\ tableData' = Installed(settled, tableData)
         /\ hasQuotaIssue' = settled.hasQuotaIssue
         /\ nextId' = NextFree(nextId, settled.newData)
         /\ last' = [n |-> call.n, path |-> "model",
                     command |-> call.command,
                     currentData |-> call.currentData,
                     tableBefore |-> tableData,
                     statusAtStart |-> call.statusAtStart,
                     statusBefore |-> getApiStatus(isConfigured, hasQuotaIssue),
                     statusAfter |->
                       getApiStatus(isConfigured, settled.hasQuotaIssue),
                     outcome |-> outcome, next |-> nextId,
                     rejected |-> settled.rejected,
                     newData |-> settled.newData,
                     response |-> settled.response]
         /\ timers' = timers \cup {AiMessage(call.n, settled)}
  /\ inFlight' = inFlight \ {call}
  /\ UNCHANGED <<isConfigured, isLoading, sent, chatMessages, editVars>>

\* ChatComponent.handleSend: setTimeout(() => setIsLoading(false), 1000)
LoadingTimeout ==
  /\ isLoading
  /\ isLoading' = FALSE
  /\ UNCHANGED <<tableData, isConfigured, hasQuotaIssue, inFlight, sent,
                 nextId, last, chatMessages, timers, editVars>>

\* The steps of the system when the user types one of inputs, the provider
\* answers one of outcomes and Math.random draws one of draws, the user
\* sending at most max messages.
NextWithin(inputs, outcomes, draws, max) ==
  \/ \E input \in inputs, draw \in draws :
       sent < max /\ SendFallback(input, DrawAt(draw, nextId))
  \/ \E input \in inputs : sent < max /\ SendModel(input)
  \/ \E call \in inFlight, outcome \in outcomes, draw \in draws :
       Settle(call, outcome, DrawAt(draw, nextId))
  \/ LoadingTimeout

NextOver(inputs, outcomes, draws) ==
  NextWithin(inputs, outcomes, draws, MaxDispatches)

Next == NextOver(UserInputs, ModelOutcomes, PlainDraws(0))

Spec == Init /\ [][Next]_vars

(***************************************************************************)
(* The executor and the validation of the rule-based interpreter, under    *)
(* commands and answers that add rows and edit cells, in and out of range. *)
(***************************************************************************)
ExecInputs ==
  { "add row 10, 20, 30", "add row 1, 2",
    "Set row 1 col 2 to 50", "set row 9 col 1 to 5" }

ExecOutcomes ==
  { Rejection(500, "The server had an error while processing your request"),
    AddRowReply(<<JsInt(10), JsInt(20), JsInt(30)>>),
    AddRowReply(<<JsInt(1), JsInt(2)>>),
    EditCellReply(JsInt(0), JsInt(1), JsInt(99)),
    EditCellReply(JsInt(7), JsInt(0), JsInt(5)),
    EditCellReply(JsInt(0), JsInt(5), JsInt(5)) }

NextExec == NextOver(ExecInputs, ExecOutcomes, PlainDraws(0))

SpecExec == Init /\ [][NextExec]_vars

(***************************************************************************)
(* What the properties below say of the call that settled last.            *)
(***************************************************************************)
\* getApiStatus() now
Status == getApiStatus(isConfigured, hasQuotaIssue)

\* A call has settled.
Settled == last.n > 0

\* The model path of the last call failed: the request was rejected, the
\* reply was empty or no JSON, or executing the decoded action threw.
ModelFailed ==
  /\ last.path = "model"
  /\ TryBlock(last.outcome, last.currentData, IdStream(last.next, last.next),
              RndStream(0)).caught

\* The request of the last call failed with a quota signature.
QuotaSignature(outcome) ==
  /\ outcome.kind = "error"
  /\ \/ outcome.status = 429
     \/ Includes(outcome.message, "quota")
     \/ Includes(outcome.message, "billing")

\* The rule-based interpreter ran in the last call.
RuleBasedRan == last.path = "fallback" \/ ModelFailed

\* What the rule-based interpreter gives for the last call's command and
\* input snapshot, the provider state being status, over the draws of
\* Math.random.
RuleBasedResults(status) ==
  {fallbackProcessCommand(last.command, last.currentData, status,
                          IdStream(last.next, draw.first),
                          RndStream(draw.floor)) :
     draw \in AnyDraws(last.next)}

(***************************************************************************)
(* Properties.                                                             *)
(***************************************************************************)
\* C1: processCommand never throws and never returns a rejected promise:
\* no call settles by rejection, whichever path produced the snapshot it was
\* given and whether the rule-based interpreter ran inside the catch block
\* or outside the try.
C1_NeverRejects == ~last.rejected

\* C2: after any sequence of dispatches from the 3x3 seed table, every row
\* of the table has exactly as many cells as the table has headers.
C2_RowsMatchHeaders ==
  \A r \in 1..Len(tableData.rows) :
    Len(tableData.rows[r]) = Len(tableData.headers)

\* C3: a dispatch that mutates nothing returns a null newData: the newData a
\* call returns is non-null only when it differs from the snapshot the call
\* was given.
C3_NullUnlessChanged ==
  (Settled /\ ~last.rejected /\ last.newData # Null)
    => last.newData[1] # last.currentData

\* C4: the provider state is monotonic: once getApiStatus() is
\* 'quota_exceeded', no step, the settling of a call that was in flight
\* included, makes it 'configured' (or anything else) again.
C4_QuotaIsMonotonic ==
  [][Status = "quota_exceeded" => Status' = "quota_exceeded"]_vars

\* A call that was in flight when the quota was found exceeded has settled,
\* its own request having failed without a quota signature.
C4_Witness ==
  /\ last.path = "model"
  /\ last.statusBefore = "quota_exceeded"
  /\ last.outcome.kind = "error"
  /\ ~QuotaSignature(last.outcome)
  /\ Status = "quota_exceeded"

\* C5: the only change of provider state is from 'configured' to
\* 'quota_exceeded', and it happens exactly when the call that settles had
\* its model request fail with a quota signature (status 429, or a message
\* containing 'quota' or 'billing'); 'not_configured' never changes.
C5_OnlyQuotaTransition ==
  [][/\ Status' # Status =>
          /\ Status = "configured"
          /\ Status' = "quota_exceeded"
          /\ last' # last
          /\ last'.path = "model"
          /\ QuotaSignature(last'.outcome)
     /\ (last' # last /\ last'.path = "model" /\ QuotaSignature(last'.outcome))
          => Status' = "quota_exceeded"
     /\ Status = "not_configured" => Status' = "not_configured"]_vars

\* The state went from 'configured' to 'quota_exceeded' on a request that
\* failed with a message naming the billing, the status code not being 429.
C5_Witness ==
  /\ last.path = "model"
  /\ last.statusBefore = "configured"
  /\ Status = "quota_exceeded"
  /\ last.outcome.status # 429
  /\ Includes(last.outcome.message, "billing")

\* C6: a dispatch that starts in 'not_configured' or 'quota_exceeded' issues
\* no model request, and its result is exactly the rule-based interpreter's
\* for the same command and snapshot, to which 'quota_exceeded' may append
\* its notice.
C6_FallbackOnly ==
  /\ \A call \in inFlight : call.statusAtStart = "configured"
  /\ (Settled /\ last.statusAtStart \in {"not_configured", "quota_exceeded"})
       => /\ last.path = "fallback"
          /\ \E r \in RuleBasedResults(last.statusAtStart) :
               IF r.threw THEN last.rejected
               ELSE /\ ~last.rejected
                    /\ last.newData = r.newData
                    /\ \/ last.response = r.response
                       \/ /\ last.statusAtStart = "quota_exceeded"
                          /\ last.response = r.response \o QuotaNotice

\* A dispatch that started in 'quota_exceeded' has changed the table and
\* carries the notice.
C6_Witness ==
  /\ last.path = "fallback"
  /\ last.statusAtStart = "quota_exceeded"
  /\ last.newData # Null
  /\ tableData = last.newData[1]
  /\ Includes(last.response, QuotaNotice)

\* C7: whenever the model path fails, for any reason, the dispatch returns
\* exactly the newData the rule-based interpreter computes for the same
\* command and the same input snapshot, and a message that contains the
\* rule-based message and a fallback notice.
C7_FailureGivesRuleBased ==
  ModelFailed
    => /\ ~last.rejected
       /\ \E r \in RuleBasedResults(Status) :
            /\ ~r.threw
            /\ last.newData = r.newData
            /\ Includes(last.response, r.response)
            /\ \E notice \in {UsingFallback, Unavailable} :
                 Includes(last.response, notice)

\* C8: a dispatch that, the state being 'configured', sees its model request
\* fail without a quota signature falls back to the rule-based interpreter
\* for that command, appends ' (OpenAI temporarily unavailable)' to its
\* message, and leaves the state 'configured', so that the next dispatch
\* goes to the model first.
C8_NonQuotaFailure ==
  (ModelFailed /\ last.statusBefore = "configured"
     /\ ~QuotaSignature(last.outcome))
    => /\ ~last.rejected
       /\ \E r \in RuleBasedResults("configured") :
            /\ ~r.threw
            /\ last.newData = r.newData
            /\ last.response = r.response \o Unavailable
       /\ Status = "configured"
       /\ ~UsesFallbackOnly(isConfigured, hasQuotaIssue)

\* The last call asked, through the model's answer, for a row of values.
ModelAddRow ==
  /\ last.path = "model"
  /\ last.outcome.kind = "reply"
  /\ last.outcome.text = "json"
  /\ last.outcome.value.t = "object"
  /\ last.outcome.value.action = JsString("add_row")
  /\ last.outcome.value.parameters.values.t = "array"

\* The last call asked, through the rule-based interpreter, for a row of
\* values.
RuleAddRow ==
  /\ RuleBasedRan
  /\ AddRowGuard(Trim(ToLowerCase(last.command)),
                 RegexMatch(Trim(ToLowerCase(last.command)), AddRowRegex))

\* The values the rule-based interpreter reads in the last command.
RuleAddRowValues ==
  ParseNumbers(Split(RegexMatch(Trim(ToLowerCase(last.command)),
                                AddRowRegex).g[1]))

\* C9: on every path, the model's 'add_row' as well as the rule-based
\* 'add row', an AddRow whose number of values differs from the number of
\* headers fails: the call returns no new snapshot and the table is not
\* changed.
C9_ArityMismatchFails ==
  (\/ /\ ModelAddRow
      /\ Len(last.outcome.value.parameters.values.a)
           # Len(last.currentData.headers)
   \/ /\ RuleAddRow
      /\ Len(RuleAddRowValues) # Len(last.currentData.headers))
    => /\ ~last.rejected
       /\ last.newData = Null
       /\ tableData = last.tableBefore

\* The last call asked, through the model's answer, for a cell to be set.
ModelEditCell ==
  /\ last.path = "model"
  /\ last.outcome.kind = "reply"
  /\ last.outcome.text = "json"
  /\ last.outcome.value.t = "object"
  /\ last.outcome.value.action = JsString("edit_cell")
  /\ IsNumber(last.outcome.value.parameters.row)
  /\ IsNumber(last.outcome.value.parameters.col)
  /\ IsNumber(last.outcome.value.parameters.value)

\* The last call asked, through the rule-based interpreter, for a cell to be
\* set.
RuleEditCell ==
  /\ RuleBasedRan
  /\ ~RuleAddRow
  /\ SetCellGuard(Trim(ToLowerCase(last.command)),
                  RegexMatch(Trim(ToLowerCase(last.command)), CellRegex))

\* The 0-based indices (row, col) lie in the table the last call was given.
InRange(row, col) ==
  /\ row \in 0..(Len(last.currentData.rows) - 1)
  /\ col \in 0..(Len(last.currentData.headers) - 1)

\* The 1-based index the rule-based interpreter reads in group k of the last
\* command, made 0-based.
RuleEditCellIndex(k) ==
  ParseInt(RegexMatch(Trim(ToLowerCase(last.command)), CellRegex).g[k]).n - 1

\* C10: on every path, an EditCell whose row or column index is out of range
\* fails: the call returns a null snapshot and the table is unchanged.
C10_OutOfRangeEditFails ==
  (\/ /\ ModelEditCell
      /\ ~InRange(last.outcome.value.parameters.row.n,
                  last.outcome.value.parameters.col.n)
   \/ /\ RuleEditCell
      /\ ~InRange(RuleEditCellIndex(1), RuleEditCellIndex(2)))
    => /\ ~last.rejected
       /\ last.newData = Null
       /\ tableData = last.tableBefore

(***************************************************************************)
(* Columns: commands and answers that add and fill columns and set cells,  *)
(* on tables whose rows the model's 'add_row' may have left short.         *)
(***************************************************************************)
ColsInputs ==
  { "add column", "add column Price",
    "set row 4 col 3 to 50", "Set row 1 col 2 to 50" }

ColsOutcomes ==
  { Rejection(500, "The server had an error while processing your request"),
    AddRowReply(<<JsInt(1), JsInt(2)>>),
    AddRowReply(<<>>),
    FillColumnReply(JsInt(2), JsInt(0)),
    FillColumnReply(JsInt(5), JsInt(0)),
    AddColumnReply(JsString("Price")) }

NextCols == NextOver(ColsInputs, ColsOutcomes, PlainDraws(0))

SpecCols == Init /\ [][NextCols]_vars

\* The last call asked, through the model's answer, for a column to be
\* filled.
ModelFillColumn ==
  /\ last.path = "model"
  /\ last.outcome.kind = "reply"
  /\ last.outcome.text = "json"
  /\ last.outcome.value.t = "object"
  /\ last.outcome.value.action = JsString("fill_column")
  /\ IsNumber(last.outcome.value.parameters.col)
  /\ IsNumber(last.outcome.value.parameters.value)

\* The 0-based index col is one of the columns of the table the last call
\* was given.
ColInRange(col) == col \in 0..(Len(last.currentData.headers) - 1)

\* C11: a FillColumn whose col index is outside 0..len(headers)-1 fails:
\* executeAction yields no new snapshot and the dispatch returns a null
\* newData.
C11_OutOfRangeFillFails ==
  (ModelFillColumn /\ ~ColInRange(last.outcome.value.parameters.col.n))
    => /\ ~last.rejected
       /\ last.newData = Null
       /\ tableData = last.tableBefore

(***************************************************************************)
(* Rows: commands and answers that add and delete rows, in and out of      *)
(* range.                                                                  *)
(***************************************************************************)
RowsInputs ==
  { "add row 10, 20, 30", "Add Row 7 8 9",
    "delete row 2", "delete row 5", "delete row 0" }

RowsOutcomes ==
  { Rejection(500, "The server had an error while processing your request"),
    AddRowReply(<<JsInt(10), JsInt(20), JsInt(30)>>),
    DeleteRowReply(JsInt(1)),
    DeleteRowReply(JsInt(7)) }

NextRows == NextOver(RowsInputs, RowsOutcomes, PlainDraws(0))

SpecRows == Init /\ [][NextRows]_vars

\* The last call asked, through the model's answer, for a row to be deleted.
ModelDeleteRow ==
  /\ last.path = "model"
  /\ last.outcome.kind = "reply"
  /\ last.outcome.text = "json"
  /\ last.outcome.value.t = "object"
  /\ last.outcome.value.action = JsString("delete_row")
  /\ IsNumber(last.outcome.value.parameters.row)

\* The last call asked, through the rule-based interpreter, for a row to be
\* deleted.
RuleDeleteRow ==
  /\ RuleBasedRan
  /\ ~RuleAddRow
  /\ ~RuleEditCell
  /\ DeleteRowGuard(Trim(ToLowerCase(last.command)),
                    RegexMatch(Trim(ToLowerCase(last.command)),
                               DeleteRowRegex))

\* The 1-based index the rule-based interpreter reads in the last command,
\* made 0-based.
RuleDeleteRowIndex ==
  ParseInt(RegexMatch(Trim(ToLowerCase(last.command)),
                      DeleteRowRegex).g[1]).n - 1

\* The 0-based index row is one of the rows of the table the last call was
\* given.
RowInRange(row) == row \in 0..(Len(last.currentData.rows) - 1)

\* C12: a DeleteRow whose row index is out of range, the rule-based
\* 'delete row R' with R < 1 or R > rows.length as well as the model's
\* 'delete_row' with a row outside 0..rows.length-1, leaves the snapshot
\* unchanged (null newData) and returns a message that states the valid
\* range 1-rows.length.
C12_OutOfRangeDeleteFails ==
  (\/ ModelDeleteRow /\ ~RowInRange(last.outcome.value.parameters.row.n)
   \/ RuleDeleteRow /\ ~RowInRange(RuleDeleteRowIndex))
    => /\ ~last.rejected
       /\ last.newData = Null
       /\ tableData = last.tableBefore
       /\ Includes(last.response,
                   "1-" \o IntToString(Len(last.currentData.rows)))

\* The last call returned the snapshot it was given with one more row, the
\* last, whose cells hold vals in order, the rows before it being what they
\* were and where they were.
AddedRow(vals) ==
  /\ ~last.rejected
  /\ last.newData # Null
  /\ last.newData[1].headers = last.currentData.headers
  /\ Len(last.newData[1].rows) = Len(last.currentData.rows) + 1
  /\ SubSeq(last.newData[1].rows, 1, Len(last.currentData.rows))
       = last.currentData.rows
  /\ Len(last.newData[1].rows[Len(last.newData[1].rows)]) = Len(vals)
  /\ \A i \in 1..Len(vals) :
       last.newData[1].rows[Len(last.newData[1].rows)][i].value = vals[i]

\* C13: for every snapshot with C columns and every AddRow with exactly C
\* integer values, the resulting snapshot has one row more, all previous
\* rows unchanged and in the same order, and a new last row whose cell
\* values are the given values in order; the message of the rule-based
\* 'add row' contains the values joined by ', '.
C13_AddRowAppends ==
  /\ (RuleAddRow /\ Len(RuleAddRowValues) = Len(last.currentData.headers))
       => /\ AddedRow([i \in 1..Len(RuleAddRowValues) |->
                         JsInt(RuleAddRowValues[i])])
          /\ Includes(last.response, JoinInts(RuleAddRowValues))
  /\ (/\ ModelAddRow
      /\ Len(last.outcome.value.parameters.values.a)
           = Len(last.currentData.headers)
      /\ \A i \in 1..Len(last.outcome.value.parameters.values.a) :
           IsInteger(last.outcome.value.parameters.values.a[i]))
       => AddedRow(last.outcome.value.parameters.values.a)

\* 'Add Row 7 8 9' went through the rule-based interpreter on a table that a
\* row had been deleted from: the table shown has one row more, the last,
\* holding 7, 8, 9, and the message names '7, 8, 9'.
C13_Witness ==
  /\ RuleBasedRan
  /\ last.command = "Add Row 7 8 9"
  /\ Len(last.currentData.rows) = 2
  /\ Len(tableData.rows) = 3
  /\ tableData = last.newData[1]
  /\ [i \in 1..3 |-> tableData.rows[3][i].value]
       = <<JsInt(7), JsInt(8), JsInt(9)>>
  /\ Includes(last.response, "7, 8, 9")

\* The last call returned the snapshot it was given with the same headers
\* and cells, but for the values of the cells at the 0-based places
\* <<row, col>> in targets, which are value.
SetOnly(targets, value) ==
  /\ ~last.rejected
  /\ last.newData # Null
  /\ last.newData[1].headers = last.currentData.headers
  /\ Len(last.newData[1].rows) = Len(last.currentData.rows)
  /\ \A i \in 1..Len(last.currentData.rows) :
       /\ Len(last.newData[1].rows[i]) = Len(last.currentData.rows[i])
       /\ \A j \in 1..Len(last.currentData.rows[i]) :
            last.newData[1].rows[i][j] =
              IF <<i - 1, j - 1>> \in targets
                THEN [last.currentData.rows[i][j] EXCEPT !.value = value]
                ELSE last.currentData.rows[i][j]

\* The snapshot the last call was given has a cell at the 0-based place
\* (row, col).
HasCell(row, col) ==
  /\ row + 1 \in 1..Len(last.currentData.rows)
  /\ col + 1 \in 1..Len(last.currentData.rows[row + 1])

\* C14: for every in-range rule-based edit 'set row R col C to V', with
\* 1 <= R <= rows.length and 1 <= C <= len(headers), exactly the cell at
\* (R-1, C-1) gets the value V, keeping its id, row and col; every other
\* cell and the headers are unchanged.
C14_EditSetsOneCell ==
  (RuleEditCell /\ InRange(RuleEditCellIndex(1), RuleEditCellIndex(2)))
    => /\ HasCell(RuleEditCellIndex(1), RuleEditCellIndex(2))
       /\ SetOnly({<<RuleEditCellIndex(1), RuleEditCellIndex(2)>>},
                  JsInt(RuleEditCellIndex(3) + 1))

\* The last call returned the snapshot it was given without the row at the
\* 0-based index row: the other rows in their order, each cell of theirs
\* being what it was (its id, value, col and stored row).
RemovedRow(row) ==
  /\ ~last.rejected
  /\ last.newData # Null
  /\ last.newData[1].headers = last.currentData.headers
  /\ Len(last.newData[1].rows) = Len(last.currentData.rows) - 1
  /\ \A i \in 1..Len(last.newData[1].rows) :
       last.newData[1].rows[i] =
         last.currentData.rows[IF i <= row THEN i ELSE i + 1]

\* C15: an in-range DeleteRow at index r, by the rule-based 'delete row' or
\* the model's 'delete_row', returns a snapshot with exactly the row at
\* index r removed: one row fewer, the remaining rows in their order, every
\* surviving cell keeping its id, value, col and its stored row attribute,
\* which is not renumbered.
C15_DeleteRemovesOneRow ==
  /\ (RuleDeleteRow /\ RowInRange(RuleDeleteRowIndex))
       => RemovedRow(RuleDeleteRowIndex)
  /\ (/\ ModelDeleteRow
      /\ IsInteger(last.outcome.value.parameters.row)
      /\ RowInRange(last.outcome.value.parameters.row.n))
       => RemovedRow(last.outcome.value.parameters.row.n)

\* 'delete row 2' went through the rule-based interpreter on three rows: the
\* table shown has two, and the cells now in the second row still say they
\* are in the third.
C15_Witness ==
  /\ RuleDeleteRow
  /\ RuleDeleteRowIndex = 1
  /\ Len(last.currentData.rows) = 3
  /\ tableData = last.newData[1]
  /\ Len(tableData.rows) = 2
  /\ tableData.rows[2] = last.currentData.rows[3]
  /\ tableData.rows[2][1].row = 2

\* The last call asked, through the model's answer, for a column to be
\* added.
ModelAddColumn ==
  /\ last.path = "model"
  /\ last.outcome.kind = "reply"
  /\ last.outcome.text = "json"
  /\ last.outcome.value.t = "object"
  /\ last.outcome.value.action = JsString("add_column")
  /\ last.outcome.value.parameters.t = "object"

\* The last call asked, through the rule-based interpreter, for a column to
\* be added.
RuleAddColumn ==
  /\ RuleBasedRan
  /\ ~RuleAddRow
  /\ ~RuleEditCell
  /\ ~RuleDeleteRow
  /\ AddColumnGuard(Trim(ToLowerCase(last.command)))

\* The name the last call was given for the column (the rule-based
\* interpreter reads it in the case-folded command), 'Column {C+1}' when it
\* was given none.
GivenHeader(named, name) ==
  IF named THEN name
  ELSE "Column " \o IntToString(Len(last.currentData.headers) + 1)

\* The last call returned the snapshot it was given with one more header,
\* header, and in every row one more cell, the last, whose value is a whole
\* number in 1..100 and whose col is the old number of columns, the headers
\* and cells before them being what they were.
AddedOneColumn(header) ==
  /\ ~last.rejected
  /\ last.newData # Null
  /\ last.newData[1].headers = Append(last.currentData.headers, header)
  /\ Len(last.newData[1].rows) = Len(last.currentData.rows)
  /\ \A i \in 1..Len(last.currentData.rows) :
       /\ Len(last.newData[1].rows[i]) = Len(last.currentData.rows[i]) + 1
       /\ SubSeq(last.newData[1].rows[i], 1, Len(last.currentData.rows[i]))
            = last.currentData.rows[i]
       /\ IsInteger(last.newData[1].rows[i][Len(last.newData[1].rows[i])].value)
       /\ last.newData[1].rows[i][Len(last.newData[1].rows[i])].value.n
            \in 1..100
       /\ last.newData[1].rows[i][Len(last.newData[1].rows[i])].col
            = Len(last.currentData.headers)

\* C16: AddColumn always succeeds on any reachable snapshot: it appends one
\* header (the given name, or 'Column {C+1}' when omitted) and appends to
\* every existing row exactly one new cell whose value is an integer in
\* 1..100 and whose col is the old column count C; all previously existing
\* cells and headers are unchanged.
C16_AddColumnAlwaysSucceeds ==
  /\ RuleAddColumn
       => AddedOneColumn(
            GivenHeader(RegexMatch(Trim(ToLowerCase(last.command)),
                                   AddColumnRegex).ok,
                        Trim(RegexMatch(Trim(ToLowerCase(last.command)),
                                        AddColumnRegex).g[1])))
  /\ ModelAddColumn
       => AddedOneColumn(
            GivenHeader(Truthy(last.outcome.value.parameters.header),
                        last.outcome.value.parameters.header.s))

\* C17: an in-range FillColumn{col, value} sets value on the cell at index
\* col of every row and changes nothing else: every cell keeps its id, row
\* and col, and the cells of the other columns keep their values.
C17_FillSetsOneColumn ==
  (/\ ModelFillColumn
   /\ IsInteger(last.outcome.value.parameters.col)
   /\ ColInRange(last.outcome.value.parameters.col.n))
    => /\ \A r \in 0..(Len(last.currentData.rows) - 1) :
            HasCell(r, last.outcome.value.parameters.col.n)
       /\ SetOnly({<<r, last.outcome.value.parameters.col.n>> :
                     r \in 0..(Len(last.currentData.rows) - 1)},
                  last.outcome.value.parameters.value)

\* C19: after any sequence of dispatches, every cell's stored row and col
\* attributes equal its actual index in the grid (rows[i][j].row = i and
\* rows[i][j].col = j), including after a row deletion followed by add row
\* or add column.
C19_PositionsMatchGrid ==
  \A i \in 1..Len(tableData.rows) :
    \A j \in 1..Len(tableData.rows[i]) :
      /\ tableData.rows[i][j].row = i - 1
      /\ tableData.rows[i][j].col = j - 1

(***************************************************************************)
(* Ids: rows and columns added and rows deleted while generateId may draw  *)
(* again an id it drew before.                                             *)
(***************************************************************************)
IdsInputs == { "add row 10, 20, 30", "add column", "delete row 1" }

IdsOutcomes ==
  { Rejection(500, "The server had an error while processing your request"),
    AddRowReply(<<JsInt(10), JsInt(20), JsInt(30)>>) }

NextIds == NextOver(IdsInputs, IdsOutcomes, AnyDraws(0))

SpecIds == Init /\ [][NextIds]_vars

\* C20: after any sequence of add row and add column operations, no two
\* live cells of the table share an id, and no cell that an operation adds
\* gets an id that a cell, live or deleted, has had.
C20_IdsAreUnique ==
  /\ \A i, k \in 1..Len(tableData.rows) :
       \A j \in 1..Len(tableData.rows[i]), l \in 1..Len(tableData.rows[k]) :
         tableData.rows[i][j].id = tableData.rows[k][l].id
           => (i = k /\ j = l)
  /\ (Settled /\ ~last.rejected /\ last.newData # Null)
       => \A id \in CellIds(last.newData[1]) \ CellIds(last.currentData) :
            id >= last.next

(***************************************************************************)
(* The objects behind a snapshot.  A heap maps an address to the object    *)
(* there: a TableData {headers, rows} holding the addresses of its two     *)
(* arrays, the headers array (strings), the rows array (addresses of row   *)
(* arrays), a row array (addresses of cells), or a TableCell.  An address  *)
(* names the call that allocated the object (e = 0: before the call), the  *)
(* kind of object, and its place.  The operations below are those of       *)
(* executeAction and of fallbackProcessCommand statement by statement:     *)
(* a spread { ...o } or [ ...a ] and a map or filter allocate, an          *)
(* assignment to a property writes.                                        *)
(***************************************************************************)
Addr(e, k, i, j) == [e |-> e, k |-> k, i |-> i, j |-> j]

\* The heap that holds data and nothing else, at the addresses of call 0.
HeapOf(data) ==
  [a \in {Addr(0, "table", 0, 0), Addr(0, "headers", 0, 0),
          Addr(0, "rows", 0, 0)}
         \cup {Addr(0, "row", i, 0) : i \in 1..Len(data.rows)}
         \cup UNION {{Addr(0, "cell", i, j) : j \in 1..Len(data.rows[i])} :
                       i \in 1..Len(data.rows)} |->
     CASE a.k = "table" -> [headers |-> Addr(0, "headers", 0, 0),
                            rows |-> Addr(0, "rows", 0, 0)]
       [] a.k = "headers" -> data.headers
       [] a.k = "rows" -> [i \in 1..Len(data.rows) |-> Addr(0, "row", i, 0)]
       [] a.k = "row" ->
            [j \in 1..Len(data.rows[a.i]) |-> Addr(0, "cell", a.i, j)]
       [] a.k = "cell" -> data.rows[a.i][a.j]]

\* The TableData value of the object at address t.
Deref(h, t) ==
  TableData(h[h[t].headers],
            [i \in 1..Len(h[h[t].rows]) |->
               [j \in 1..Len(h[h[h[t].rows][i]]) |->
                  h[h[h[h[t].rows][i]][j]]]])

\* const newRow = values.map((value, index) => this.createCell(...));
\* return { ...currentData, rows: [...currentData.rows, newRow] }
HeapAppendRow(h, t, values, ids) ==
  h @@
  [a \in {Addr(1, "table", 0, 0), Addr(1, "rows", 0, 0), Addr(1, "row", 0, 0)}
         \cup {Addr(1, "cell", 0, j) : j \in 1..Len(values)} |->
     CASE a.k = "table" -> [headers |-> h[t].headers,
                            rows |-> Addr(1, "rows", 0, 0)]
       [] a.k = "rows" -> Append(h[h[t].rows], Addr(1, "row", 0, 0))
       [] a.k = "row" -> [j \in 1..Len(values) |-> Addr(1, "cell", 0, j)]
       [] a.k = "cell" ->
            createCell(ids[a.j], values[a.j], Len(h[h[t].rows]), a.j - 1)]

\* A variant that copies the TableData only and sets the value in the cells
\* it shares with the snapshot it was given
\* (const newData = { ...currentData }; newData.rows[r][c].value = value).
HeapSetValueInPlace(h, t, onRows, col, value) ==
  [a \in DOMAIN h \cup {Addr(1, "table", 0, 0)} |->
     IF a = Addr(1, "table", 0, 0)
       THEN [headers |-> h[t].headers, rows |-> h[t].rows]
     ELSE IF \E i \in 1..Len(h[h[t].rows]) :
               /\ (i - 1) \in onRows
               /\ \E j \in 1..Len(h[h[h[t].rows][i]]) :
                    IndexIs(j - 1, col) /\ a = h[h[h[t].rows][i]][j]
       THEN [h[a] EXCEPT !.value = value]
     ELSE h[a]]

\* const newData = { ...currentData };
\* newData.rows = newData.rows.map((row, rIdx) => rIdx === r
\*   ? row.map((cell, cIdx) => cIdx === col ? { ...cell, value } : cell) : row);
\* on the rows whose index rIdx is in onRows (fill_column: on all of them)
HeapSetValue(h, t, onRows, col, value) ==
  [(h @@
    [a \in {Addr(1, "table", 0, 0), Addr(1, "rows", 0, 0)}
           \cup {Addr(1, "row", i, 0) :
                   i \in {i \in 1..Len(h[h[t].rows]) : (i - 1) \in onRows}}
           \cup UNION {{Addr(1, "cell", i, j) :
                          j \in {j \in 1..Len(h[h[h[t].rows][i]]) :
                                   IndexIs(j - 1, col)}} :
                         i \in {i \in 1..Len(h[h[t].rows]) :
                                  (i - 1) \in onRows}} |->
       CASE a.k = "table" -> [headers |-> h[t].headers, rows |-> h[t].rows]
         [] a.k = "rows" ->
              [i \in 1..Len(h[h[t].rows]) |->
                 IF (i - 1) \in onRows THEN Addr(1, "row", i, 0)
                 ELSE h[h[t].rows][i]]
         [] a.k = "row" ->
              [j \in 1..Len(h[h[h[t].rows][a.i]]) |->
                 IF IndexIs(j - 1, col) THEN Addr(1, "cell", a.i, j)
                 ELSE h[h[h[t].rows][a.i]][j]]
         [] a.k = "cell" ->
              [h[h[h[h[t].rows][a.i]][a.j]] EXCEPT !.value = value]])
   EXCEPT ![Addr(1, "table", 0, 0)].rows = Addr(1, "rows", 0, 0)]

\* return { ...currentData, rows: currentData.rows.filter((_, index) => index !== row) }
HeapRemoveRow(h, t, row) ==
  h @@
  [a \in {Addr(1, "table", 0, 0), Addr(1, "rows", 0, 0)} |->
     CASE a.k = "table" -> [headers |-> h[t].headers,
                            rows |-> Addr(1, "rows", 0, 0)]
       [] a.k = "rows" -> RemoveRow(h[h[t].rows], 0, row)]

\* return { ...currentData, headers: [...currentData.headers, newHeader],
\*   rows: currentData.rows.map(row => [...row, this.createCell(...)]) }
HeapAppendColumn(h, t, newHeader, ids, rnd) ==
  h @@
  [a \in {Addr(1, "table", 0, 0), Addr(1, "headers", 0, 0),
          Addr(1, "rows", 0, 0)}
         \cup {Addr(1, "row", i, 0) : i \in 1..Len(h[h[t].rows])}
         \cup {Addr(1, "cell", i, 0) : i \in 1..Len(h[h[t].rows])} |->
     CASE a.k = "table" -> [headers |-> Addr(1, "headers", 0, 0),
                            rows |-> Addr(1, "rows", 0, 0)]
       [] a.k = "headers" -> Append(h[h[t].headers], newHeader)
       [] a.k = "rows" ->
            [i \in 1..Len(h[h[t].rows]) |-> Addr(1, "row", i, 0)]
       [] a.k = "row" -> Append(h[h[h[t].rows][a.i]], Addr(1, "cell", a.i, 0))
       [] a.k = "cell" ->
            createCell(ids[a.i], JsInt(rnd[a.i] + 1),
                       h[h[h[h[t].rows][a.i]][1]].row, Len(h[h[t].headers]))]

\* AIAgent.executeAction on the heap: the objects it allocates, a call that
\* returns null or throws leaving none that can be reached.
HeapExecuteAction(h, t, action, parameters, ids, rnd) ==
  IF action \in {"add_row", "edit_cell", "delete_row", "add_column", "fill_column"}
       /\ parameters.t = "undefined"
    THEN h
  ELSE CASE action = "add_row" ->
         IF Truthy(parameters.values) /\ parameters.values.t = "array"
           THEN HeapAppendRow(h, t, parameters.values.a, ids)
           ELSE h
    [] action = "edit_cell" ->
         IF IsNumber(parameters.row) /\ IsNumber(parameters.col)
              /\ IsNumber(parameters.value)
           THEN HeapSetValue(h, t,
                             {rIdx \in 0..(Len(h[h[t].rows]) - 1) :
                                IndexIs(rIdx, parameters.row)},
                             parameters.col, parameters.value)
           ELSE h
    [] action = "delete_row" ->
         IF IsNumber(parameters.row) /\ AtLeastZero(parameters.row)
              /\ LessThan(parameters.row, Len(h[h[t].rows]))
           THEN HeapRemoveRow(h, t, parameters.row)
           ELSE h
    [] action = "add_column" ->
         IF \E i \in 1..Len(h[h[t].rows]) : h[h[h[t].rows][i]] = <<>>
           THEN h
           ELSE HeapAppendColumn(h, t,
                                 IF Truthy(parameters.header)
                                   THEN parameters.header.s
                                   ELSE DefaultHeader(Deref(h, t)),
                                 ids, rnd)
    [] action = "fill_column" ->
         IF IsNumber(parameters.col) /\ IsNumber(parameters.value)
           THEN HeapSetValue(h, t, 0..(Len(h[h[t].rows]) - 1),
                             parameters.col, parameters.value)
           ELSE h
    [] OTHER -> h

\* AIAgent.fallbackProcessCommand on the heap.
HeapFallback(h, t, lowerCommand, ids, rnd) ==
  IF AddRowGuard(lowerCommand, RegexMatch(lowerCommand, AddRowRegex))
    THEN IF Len(ParseNumbers(Split(RegexMatch(lowerCommand, AddRowRegex).g[1])))
              = Len(h[h[t].headers])
           THEN HeapAppendRow(h, t,
                  [i \in 1..Len(h[h[t].headers]) |->
                     JsInt(ParseNumbers(Split(
                       RegexMatch(lowerCommand, AddRowRegex).g[1]))[i])],
                  ids)
           ELSE h
  ELSE IF SetCellGuard(lowerCommand, RegexMatch(lowerCommand, CellRegex))
    THEN IF /\ ParseInt(RegexMatch(lowerCommand, CellRegex).g[1]).n - 1
                 \in 0..(Len(h[h[t].rows]) - 1)
            /\ ParseInt(RegexMatch(lowerCommand, CellRegex).g[2]).n - 1
                 \in 0..(Len(h[h[t].headers]) - 1)
           THEN HeapSetValue(h, t,
                  {ParseInt(RegexMatch(lowerCommand, CellRegex).g[1]).n - 1},
                  JsInt(ParseInt(RegexMatch(lowerCommand, CellRegex).g[2]).n - 1),
                  JsInt(ParseInt(RegexMatch(lowerCommand, CellRegex).g[3]).n))
           ELSE h
  ELSE IF DeleteRowGuard(lowerCommand, RegexMatch(lowerCommand, DeleteRowRegex))
    THEN IF ParseInt(RegexMatch(lowerCommand, DeleteRowRegex).g[1]).n - 1
              \in 0..(Len(h[h[t].rows]) - 1)
           THEN HeapRemoveRow(h, t,
                  JsInt(ParseInt(RegexMatch(lowerCommand,
                                            DeleteRowRegex).g[1]).n - 1))
           ELSE h
  ELSE IF AddColumnGuard(lowerCommand)
    THEN IF \E i \in 1..Len(h[h[t].rows]) : h[h[h[t].rows][i]] = <<>>
           THEN h
           ELSE HeapAppendColumn(h, t,
                  IF RegexMatch(lowerCommand, AddColumnRegex).ok
                    THEN Trim(RegexMatch(lowerCommand, AddColumnRegex).g[1])
                    ELSE DefaultHeader(Deref(h, t)),
                  ids, rnd)
  ELSE h

\* The heap the last call leaves, entered with its snapshot at
\* Addr(0, "table", 0, 0): the try block's executeAction when the model path
\* succeeded, the rule-based interpreter otherwise.
HeapAfter ==
  IF last.path = "model" /\ ~ModelFailed
    THEN HeapExecuteAction(HeapOf(last.currentData), Addr(0, "table", 0, 0),
                           IF last.outcome.value.action.t = "string"
                             THEN last.outcome.value.action.s ELSE "",
                           last.outcome.value.parameters,
                           IdStream(last.next, last.next), RndStream(0))
    ELSE HeapFallback(HeapOf(last.currentData), Addr(0, "table", 0, 0),
                      Trim(ToLowerCase(last.command)),
                      IdStream(last.next, last.next), RndStream(0))

\* Every operation on both paths, each on rows and columns that exist and
\* on ones that do not.
OpsInputs ==
  { "add row 10, 20, 30", "set row 1 col 2 to 50", "set row 9 col 1 to 5",
    "delete row 2", "add column" }

OpsOutcomes ==
  { Rejection(500, "The server had an error while processing your request"),
    AddRowReply(<<JsInt(10), JsInt(20), JsInt(30)>>),
    EditCellReply(JsInt(0), JsInt(1), JsInt(99)),
    DeleteRowReply(JsInt(1)),
    AddColumnReply(JsString("Price")),
    FillColumnReply(JsInt(2), JsInt(0)) }

NextOps == NextOver(OpsInputs, OpsOutcomes, PlainDraws(0))

SpecOps == Init /\ [][NextOps]_vars

\* C18: no dispatch mutates the snapshot it was given: after a call has
\* settled, every object of the input snapshot (the TableData, its headers
\* array, its rows array, each row array and each cell) holds what it held
\* before the call, and a snapshot the call returns is a TableData object
\* that is not the one it was given.
C18_InputSnapshotUntouched ==
  Settled =>
    /\ \A a \in DOMAIN HeapOf(last.currentData) :
         HeapAfter[a] = HeapOf(last.currentData)[a]
    /\ Deref(HeapAfter, Addr(0, "table", 0, 0)) = last.currentData
    /\ (~last.rejected /\ last.newData # Null) =>
         /\ Addr(1, "table", 0, 0) \in DOMAIN HeapAfter
         /\ Addr(1, "table", 0, 0) \notin DOMAIN HeapOf(last.currentData)
         /\ Deref(HeapAfter, Addr(1, "table", 0, 0)) = last.newData[1]

\* A call has set a cell of a row it shares with nothing and returned a
\* snapshot that differs from the one it was given.
C18_Witness ==
  /\ Settled
  /\ ~last.rejected
  /\ last.newData # Null
  /\ last.newData[1] # last.currentData
  /\ Len(last.newData[1].rows) = Len(last.currentData.rows)
  /\ last.newData[1].headers = last.currentData.headers
  /\ Deref(HeapAfter, Addr(1, "table", 0, 0)) = last.newData[1]

(***************************************************************************)
(* The shapes a reply of the provider can have: values that are no whole   *)
(* numbers, JSON that is no object or an object without an action, and     *)
(* actions outside the five that change the table.                         *)
(***************************************************************************)
NoOpReply(action, message) ==
  Completion("json",
    JsonObject(action,
               Parameters(JsUndefined, JsUndefined, JsUndefined, JsUndefined,
                          JsUndefined),
               message))

RepliesInputs == { "add row 10, 20, 30", "help", "xyz nonsense" }

RepliesOutcomes ==
  { Rejection(500, "The server had an error while processing your request"),
    Rejection(429, "Rate limit reached for requests"),
    AddRowReply(<<JsInt(1), JsHalf(2), JsInt(3)>>),
    AddRowReply(<<JsInt(1), JsString("two"), JsInt(3)>>),
    Completion("json", JsonNull),
    Completion("json", JsonNumber),
    NoOpReply(JsUndefined, JsString("Here is your table.")),
    NoneReply,
    NoOpReply(JsString("sort_table"), JsString("Sorted the table.")),
    NoOpReply(JsString("none"), JsString("")),
    NoOpReply(JsString("none"), JsUndefined) }

NextReplies == NextOver(RepliesInputs, RepliesOutcomes, PlainDraws(0))

SpecReplies == Init /\ [][NextReplies]_vars

\* C21: after any sequence of dispatches on any path, every cell value of
\* the table is an integer; a model reply 'add_row' whose values hold
\* elements that are no integers does not put them into the table.
C21_ValuesAreIntegers ==
  \A r \in 1..Len(tableData.rows) :
    \A c \in 1..Len(tableData.rows[r]) :
      IsInteger(tableData.rows[r][c].value)

\* C22: at most one dispatch is in flight per engine instance at any time:
\* the caller does not start a second processCommand before the first has
\* resolved.
C22_OneInFlight == Cardinality(inFlight) <= 1

\* The last call asked the rule-based interpreter for help.
RuleHelp ==
  /\ RuleBasedRan
  /\ ~RuleAddRow
  /\ ~RuleEditCell
  /\ ~RuleDeleteRow
  /\ ~RuleAddColumn
  /\ HelpGuard(Trim(ToLowerCase(last.command)))

\* The rule-based interpreter recognized nothing in the last call's command.
RuleUnrecognized ==
  /\ RuleBasedRan
  /\ ~RuleAddRow
  /\ ~RuleEditCell
  /\ ~RuleDeleteRow
  /\ ~RuleAddColumn
  /\ ~HelpGuard(Trim(ToLowerCase(last.command)))

\* The response is the rule-based message text, after the quota banner when
\* the catch block put one before it, and before the notice of the path.
Carries(response, text) ==
  StartsWith(response, text) \/ StartsWith(response, QuotaBanner \o text)

\* C23: getApiStatus reflects the state dispatch uses: a call takes the
\* model-backed path exactly when getApiStatus() is 'configured' at the
\* moment it starts, and the status a help or unrecognized-command message
\* names is the value getApiStatus() has when the call returns it.
C23_StatusIsDispatchState ==
  Settled =>
    /\ last.path = "model" <=> last.statusAtStart = "configured"
    /\ RuleHelp =>
         Carries(last.response, HelpStatusLine(last.statusAfter) \o HelpBody)
    /\ RuleUnrecognized =>
         Carries(last.response,
                 "I didn't understand that command"
                   \o ConfigHint(last.statusAfter) \o UnrecognizedTail)

\* A call that started with the provider configured failed on the quota and
\* answered with the help text, which names the exceeded quota.
C23_Witness ==
  /\ RuleHelp
  /\ last.path = "model"
  /\ last.statusAtStart = "configured"
  /\ last.statusAfter = "quota_exceeded"
  /\ Carries(last.response, HelpStatusLine("quota_exceeded"))

(***************************************************************************)
(* Runs long enough for a call to start after the quota has been found     *)
(* exceeded and a reply has left a row without cells.                      *)
(***************************************************************************)
MaxQuotaRun == 3

QuotaInputs == { "add column", "help", "xyz nonsense" }

QuotaOutcomes ==
  { Rejection(429, "Rate limit reached for requests"),
    AddRowReply(<<>>) }

NextQuota == NextWithin(QuotaInputs, QuotaOutcomes, PlainDraws(0), MaxQuotaRun)

SpecQuota == Init /\ [][NextQuota]_vars

\* C24: every dispatch that starts in 'quota_exceeded' returns the
\* rule-based message with the notice
\* ' (OpenAI API quota exceeded - using fallback mode)' appended exactly
\* once, unless the rule-based message already mentions quota, in which case
\* it is returned unchanged.
C24_QuotaNoticeOnce ==
  (Settled /\ last.statusAtStart = "quota_exceeded")
    => /\ ~last.rejected
       /\ \E r \in RuleBasedResults("quota_exceeded") :
            /\ ~r.threw
            /\ last.response = IF Includes(r.response, "quota")
                                 THEN r.response
                                 ELSE r.response \o QuotaNotice

\* The model's reply to the last call parsed as JSON and is not one object
\* with the fields action, parameters and message.
MalformedReply ==
  /\ last.path = "model"
  /\ last.outcome.kind = "reply"
  /\ last.outcome.text = "json"
  /\ \/ last.outcome.value.t # "object"
     \/ last.outcome.value.action.t # "string"
     \/ last.outcome.value.parameters.t # "object"
     \/ last.outcome.value.message.t # "string"

\* C25: a model reply that parses as JSON but is not one object with the
\* fields action, parameters and message is a malformed-response failure:
\* the rule-based interpreter handles the command and its result is what the
\* call returns, not the report of a completed action.
C25_MalformedReplyFallsBack ==
  MalformedReply
    => /\ ModelFailed
       /\ \E r \in RuleBasedResults(last.statusAfter) :
            /\ ~r.threw
            /\ ~last.rejected
            /\ last.newData = r.newData
            /\ Includes(last.response, r.response)

\* The model's reply to the last call is an object whose action is a name
\* outside the five that change the table ('none' among them).
NoOpAction ==
  /\ last.path = "model"
  /\ last.outcome.kind = "reply"
  /\ last.outcome.text = "json"
  /\ last.outcome.value.t = "object"
  /\ last.outcome.value.action.t = "string"
  /\ last.outcome.value.action.s
       \notin {"add_row", "edit_cell", "delete_row", "add_column", "fill_column"}

\* C26 as stated: a model reply whose action is 'none' or any name outside
\* the five mutation actions behaves as NoOp: the call returns a null
\* newData, the table stays as it was, and the response is the message the
\* model provided, passed through unchanged.
C26_NoOpPassesMessage ==
  (NoOpAction /\ last.outcome.value.message.t = "string")
    => /\ ~last.rejected
       /\ last.newData = Null
       /\ tableData = last.tableBefore
       /\ last.response = last.outcome.value.message.s

\* C26 amended: such a reply behaves as NoOp, the call returns a null
\* newData and the table stays as it was; the response is the model's
\* message unchanged when that is a non-empty string, and the fixed text
\* 'Action completed successfully' when the reply has no message or an
\* empty one.
C26_NoOpMessageOrFixedText ==
  (NoOpAction /\ last.outcome.value.message.t \in {"string", "undefined"})
    => /\ ~last.rejected
       /\ last.newData = Null
       /\ tableData = last.tableBefore
       /\ last.response =
            IF last.outcome.value.message.t = "string"
                 /\ last.outcome.value.message.s # ""
              THEN last.outcome.value.message.s
              ELSE "Action completed successfully"

\* A reply naming an action the engine does not know has settled with the
\* model's message, on a table an earlier call had changed.
C26_Witness ==
  /\ NoOpAction
  /\ last.outcome.value.action.s = "sort_table"
  /\ last.response = "Sorted the table."
  /\ last.newData = Null
  /\ tableData = last.tableBefore
  /\ tableData # SeedTable

\* C27: for a command that matches none of the rule-based patterns, the
\* rule-based interpreter returns a null newData and a message that holds
\* an example command, with a hint at the configuration when the state is
\* 'not_configured' and a hint at the quota when it is 'quota_exceeded'.
C27_UnrecognizedGivesGuidance ==
  RuleUnrecognized
    => /\ last.newData = Null
       /\ \A r \in RuleBasedResults(last.statusAfter) :
            /\ ~r.threw
            /\ r.newData = Null
            /\ Includes(r.response, "\"add row 10, 20, 30\"")
            /\ last.statusAfter = "not_configured"
                 => Includes(r.response, "Configure OpenAI API key")
            /\ last.statusAfter = "quota_exceeded"
                 => Includes(r.response, "OpenAI quota exceeded - check billing")
            /\ Includes(last.response, r.response)

\* A command nothing matches was answered while the quota was exceeded, and
\* the answer names the quota.
C27_Witness ==
  /\ RuleUnrecognized
  /\ last.command = "xyz nonsense"
  /\ last.statusAfter = "quota_exceeded"
  /\ Includes(last.response, "OpenAI quota exceeded - check billing")
  /\ Includes(last.response, "\"delete row 2\"")

(***************************************************************************)
(* TableComponent.getFilteredAndSortedRows on the heap: the row objects of *)
(* data.rows the view shows, in the order it shows them, in an array of    *)
(* its own at Addr(2, "rows", 0, 0).  A row without the column of the      *)
(* filter or of the sort makes row[column].value throw a TypeError; then   *)
(* no view is returned.                                                    *)
(***************************************************************************)
\* sortConfig: null, or a column of the table and a direction
SortConfigs(data) ==
  {Null} \cup {Some([column |-> c, direction |-> d]) :
                 c \in 0..(Len(data.headers) - 1), d \in {"asc", "desc"}}

\* filterCriteria: null, or a column of the table, an operator and one of
\* the values the column's select offers (here the one of the first row)
FilterCriterias(data) ==
  {Null} \cup {Some([column |-> c, operator |-> op,
                     value |-> data.rows[1][c + 1].value.n]) :
                 c \in {c \in 0..(Len(data.headers) - 1) :
                          data.rows # <<>> /\ Len(data.rows[1]) > c},
                 op \in {"gt", "lt", "eq", "gte", "lte"}}

\* switch (filterCriteria.operator) { case 'gt': return cellValue > value; ... }
Keeps(operator, cellValue, value) ==
  CASE operator = "gt" -> cellValue > value
    [] operator = "lt" -> cellValue < value
    [] operator = "eq" -> cellValue = value
    [] operator = "gte" -> cellValue >= value
    [] operator = "lte" -> cellValue <= value
    [] OTHER -> TRUE

\* Array.prototype.sort with (a, b) => aValue - bValue (asc) or
\* bValue - aValue (desc): a stable sort, here by insertion of row into the
\* sorted rows behind every row that does not come after it.
RECURSIVE InsertRow(_, _, _, _)
InsertRow(h, sorted, row, sortConfig) ==
  IF sorted = <<>> THEN <<row>>
  ELSE IF (IF sortConfig.direction = "asc"
             THEN h[h[Head(sorted)][sortConfig.column + 1]].value.n
                    - h[h[row][sortConfig.column + 1]].value.n
             ELSE h[h[row][sortConfig.column + 1]].value.n
                    - h[h[Head(sorted)][sortConfig.column + 1]].value.n) > 0
    THEN <<row>> \o sorted
  ELSE <<Head(sorted)>> \o InsertRow(h, Tail(sorted), row, sortConfig)

RECURSIVE SortRows(_, _, _)
SortRows(h, rows, sortConfig) ==
  IF rows = <<>> THEN <<>>
  ELSE InsertRow(h, SortRows(h, SubSeq(rows, 1, Len(rows) - 1), sortConfig),
                 rows[Len(rows)], sortConfig)

\* filteredRows.filter(row => ... row[filterCriteria.column].value ...)
FilterRows(h, rows, filterCriteria) ==
  LET Test(row) == Keeps(filterCriteria.operator,
                         h[h[row][filterCriteria.column + 1]].value.n,
                         filterCriteria.value)
  IN  SelectSeq(rows, Test)

\* Some row of rows has no cell in column.
LacksColumn(h, rows, column) ==
  \E i \in 1..Len(rows) : Len(h[rows[i]]) <= column

\* A variant that sorts data.rows itself (let filteredRows = data.rows).
HeapViewInPlace(h, t, filterCriteria, sortConfig) ==
  IF filterCriteria # Null /\ LacksColumn(h, h[h[t].rows], filterCriteria[1].column)
    THEN h
  ELSE IF filterCriteria # Null
    THEN IF sortConfig = Null
           THEN h @@ (Addr(2, "rows", 0, 0) :>
                        FilterRows(h, h[h[t].rows], filterCriteria[1]))
         ELSE IF Len(FilterRows(h, h[h[t].rows], filterCriteria[1])) >= 2
                   /\ LacksColumn(h, FilterRows(h, h[h[t].rows], filterCriteria[1]),
                                  sortConfig[1].column)
           THEN h
         ELSE h @@ (Addr(2, "rows", 0, 0) :>
                      SortRows(h, FilterRows(h, h[h[t].rows], filterCriteria[1]),
                               sortConfig[1]))
  ELSE IF sortConfig = Null THEN h
  ELSE IF Len(h[h[t].rows]) >= 2
            /\ LacksColumn(h, h[h[t].rows], sortConfig[1].column)
    THEN h
  ELSE [h EXCEPT ![h[t].rows] = SortRows(h, h[h[t].rows], sortConfig[1])]

\* let filteredRows = [...data.rows]; if (filterCriteria) filteredRows =
\* filteredRows.filter(...); if (sortConfig) filteredRows.sort(...);
\* return filteredRows
HeapView(h, t, filterCriteria, sortConfig) ==
  IF filterCriteria # Null /\ LacksColumn(h, h[h[t].rows], filterCriteria[1].column)
    THEN h
  ELSE IF sortConfig = Null
    THEN h @@ (Addr(2, "rows", 0, 0) :>
                 IF filterCriteria = Null THEN h[h[t].rows]
                 ELSE FilterRows(h, h[h[t].rows], filterCriteria[1]))
  ELSE IF (IF filterCriteria = Null THEN
             Len(h[h[t].rows]) >= 2
               /\ LacksColumn(h, h[h[t].rows], sortConfig[1].column)
           ELSE
             Len(FilterRows(h, h[h[t].rows], filterCriteria[1])) >= 2
               /\ LacksColumn(h, FilterRows(h, h[h[t].rows], filterCriteria[1]),
                              sortConfig[1].column))
    THEN h
  ELSE h @@ (Addr(2, "rows", 0, 0) :>
               SortRows(h,
                        IF filterCriteria = Null THEN h[h[t].rows]
                        ELSE FilterRows(h, h[h[t].rows], filterCriteria[1]),
                        sortConfig[1]))

\* C28: computing the filtered and sorted view under any filter and sort
\* configuration leaves the snapshot as it is: data.rows keeps its order and
\* its length, and no cell's row, col, id or value is changed.
C28_ViewLeavesSnapshot ==
  LET h == HeapOf(tableData)
  IN  \A filterCriteria \in FilterCriterias(tableData),
         sortConfig \in SortConfigs(tableData) :
        LET after == HeapView(h, Addr(0, "table", 0, 0), filterCriteria,
                              sortConfig)
        IN  /\ \A a \in DOMAIN h : after[a] = h[a]
            /\ Deref(after, Addr(0, "table", 0, 0)) = tableData

\* On a table that dispatches have changed, a sort without a filter shows
\* all the rows in another order than data.rows has.
C28_Witness ==
  /\ tableData # SeedTable
  /\ \E sortConfig \in SortConfigs(tableData) \ {Null} :
       /\ Addr(2, "rows", 0, 0) \in
            DOMAIN HeapView(HeapOf(tableData), Addr(0, "table", 0, 0),
                            Null, sortConfig)
       /\ HeapView(HeapOf(tableData), Addr(0, "table", 0, 0), Null,
                   sortConfig)[Addr(2, "rows", 0, 0)]
            # HeapOf(tableData)[Addr(0, "rows", 0, 0)]

(***************************************************************************)
(* Commands with more than one keyword in them, and rows of values with    *)
(* tokens that are no numbers.                                             *)
(***************************************************************************)
TextInputs ==
  { "add column help", "delete row 2 help", "add row 7 8 9",
    "add row 1, x, 3", "add row 1, x, 3, 4", "add row ten" }

TextOutcomes ==
  { Rejection(500, "The server had an error while processing your request") }

NextText == NextOver(TextInputs, TextOutcomes, PlainDraws(0))

SpecText == Init /\ [][NextText]_vars

\* The guards of the rule-based interpreter that lowerCommand satisfies.
GuardsMatching(lowerCommand) ==
  {g \in {"add row", "set row", "delete row", "add column", "help"} :
     CASE g = "add row" ->
            AddRowGuard(lowerCommand, RegexMatch(lowerCommand, AddRowRegex))
       [] g = "set row" ->
            SetCellGuard(lowerCommand, RegexMatch(lowerCommand, CellRegex))
       [] g = "delete row" ->
            DeleteRowGuard(lowerCommand,
                           RegexMatch(lowerCommand, DeleteRowRegex))
       [] g = "add column" -> AddColumnGuard(lowerCommand)
       [] g = "help" -> HelpGuard(lowerCommand)}

\* C29: the rule-based patterns are mutually exclusive: for every command
\* text at most one of the guards (add row, set/change row, delete row, add
\* column, help/commands) matches, so that the result does not depend on the
\* order in which the guards are tried.
C29_GuardsAreExclusive ==
  RuleBasedRan
    => Cardinality(GuardsMatching(Trim(ToLowerCase(last.command)))) <= 1

\* C30: for a rule-based 'add row' command the tokens that do not parse as
\* integers are dropped from the list of values, and the row is added
\* exactly when the number of tokens that remain equals the number of
\* headers; otherwise newData is null and the message names the number of
\* headers as the count required.
C30_AddRowDropsTokens ==
  RuleAddRow =>
    LET tokens == Split(RegexMatch(Trim(ToLowerCase(last.command)),
                                   AddRowRegex).g[1])
        Parses(token) == ~ParseInt(Trim(token)).nan
        kept == SelectSeq(tokens, Parses)
    IN  IF Len(kept) = Len(last.currentData.headers)
          THEN AddedRow([i \in 1..Len(kept) |->
                           JsInt(ParseInt(Trim(kept[i])).n)])
          ELSE /\ ~last.rejected
               /\ last.newData = Null
               /\ tableData = last.tableBefore
               /\ Includes(last.response,
                           "exactly "
                             \o IntToString(Len(last.currentData.headers))
                             \o " values")

\* 'add row 1, x, 3, 4' on a table of three columns: x is dropped, three
\* values remain and the row 1, 3, 4 is added.
C30_Witness ==
  /\ RuleAddRow
  /\ last.command = "add row 1, x, 3, 4"
  /\ Len(last.currentData.headers) = 3
  /\ last.newData # Null
  /\ [i \in 1..3 |-> tableData.rows[Len(tableData.rows)][i].value]
       = <<JsInt(1), JsInt(3), JsInt(4)>>


(***************************************************************************)
(* Manual edits: TableComponent's startEditing, the input's onChange,      *)
(* saveEdit and cancelEdit, and App.handleTableDataChange behind           *)
(* onDataChange.                                                           *)
(***************************************************************************)
MaxEdits == 2

\* The cells of a table
CellsOf(data) ==
  UNION {{data.rows[r][c] : c \in 1..Len(data.rows[r])} :
           r \in 1..Len(data.rows)}

\* currentValue.toString() of a cell's value
ValueToString(value) ==
  IF value.t = "number"
    THEN IntToString(value.n) \o (IF value.frac THEN ".5" ELSE "")
    ELSE value.s

\* saveEdit: what it hands to onDataChange, if it calls it
saveEdit(data, editing, value) ==
  IF editing = Null THEN [called |-> FALSE, newData |-> data]
  ELSE LET newValue == ParseInt(value)
       IN  IF newValue.nan THEN [called |-> FALSE, newData |-> data]
           ELSE [called |-> TRUE,
                 newData |->
                   [data EXCEPT !.rows =
                      [r \in DOMAIN data.rows |->
                         [c \in DOMAIN data.rows[r] |->
                            IF data.rows[r][c].id = editing[1]
                              THEN [data.rows[r][c] EXCEPT
                                      !.value = JsInt(newValue.n)]
                              ELSE data.rows[r][c]]]]]

\* A click on a cell that is shown and is not the one being edited:
\* startEditing(cell.id, cell.value)
StartEditing(cell) ==
  /\ cell \in CellsOf(tableData)
  /\ editingCell # Some(cell.id)
  /\ editingCell' = Some(cell.id)
  /\ editValue' = ValueToString(cell.value)
  /\ UNCHANGED <<tableData, isConfigured, hasQuotaIssue, isLoading, inFlight,
                 sent, nextId, last, chatMessages, timers, lastEdit>>

\* The input of the cell being edited: onChange={(e) => setEditValue(...)}
ChangeEdit(text) ==
  /\ editingCell # Null
  /\ editingCell[1] \in CellIds(tableData)
  /\ editValue' = text
  /\ UNCHANGED <<tableData, isConfigured, hasQuotaIssue, isLoading, inFlight,
                 sent, nextId, last, chatMessages, timers, editingCell,
                 lastEdit>>

\* saveEdit, with App.handleTableDataChange as onDataChange
SaveEdit ==
  LET edit == saveEdit(tableData, editingCell, editValue)
  IN  /\ tableData' = IF edit.called THEN edit.newData ELSE tableData
      /\ editingCell' = IF edit.called THEN Null ELSE editingCell
      /\ editValue' = IF edit.called THEN "" ELSE editValue
      /\ lastEdit' = [n |-> lastEdit.n + 1, editingCell |-> editingCell,
                      editValue |-> editValue, tableBefore |-> tableData,
                      called |-> edit.called, tableAfter |-> tableData']
      /\ UNCHANGED <<isConfigured, hasQuotaIssue, isLoading, inFlight, sent,
                     nextId, last, chatMessages, timers>>

\* cancelEdit
CancelEdit ==
  /\ editingCell' = Null
  /\ editValue' = ""
  /\ UNCHANGED <<tableData, isConfigured, hasQuotaIssue, isLoading, inFlight,
                 sent, nextId, last, chatMessages, timers, lastEdit>>

\* The user's edits: clicks on the cells of the first column, the texts the
\* number input can hold, at most MaxEdits calls of saveEdit.
EditTexts == {"50", "7.5", ""}

Edits ==
  \/ \E cell \in CellsOf(tableData) : cell.col = 0 /\ StartEditing(cell)
  \/ \E text \in EditTexts : ChangeEdit(text)
  \/ lastEdit.n < MaxEdits /\ SaveEdit
  \/ CancelEdit

MaxEditRun == 1

EditInputs == {"add column", "delete row 1"}

EditOutcomes ==
  {AddRowReply(<<JsInt(10), JsInt(20), JsInt(30)>>),
   Rejection(500, "Internal Server Error")}

NextEdit ==
  \/ NextWithin(EditInputs, EditOutcomes, PlainDraws(0), MaxEditRun)
  \/ Edits

SpecEdit == Init /\ [][NextEdit]_vars

\* The dispatch that settled last returned a table, and App installed it
InstalledNow ==
  /\ Settled
  /\ ~last.rejected
  /\ last.newData # Null
  /\ tableData = last.newData[1]

\* C31: when a dispatch resolves with a table, the table it installs still
\* holds every change made to the table between the moment the dispatch took
\* its input snapshot and the moment it resolved: a cell added in between is
\* still there, and a cell whose value was changed in between and that the
\* dispatch kept still has the changed value.
C31_NoChangeLost ==
  InstalledNow =>
    \A cell \in CellsOf(last.tableBefore) \ CellsOf(last.currentData) :
      IF cell.id \in CellIds(last.currentData)
        THEN \A kept \in CellsOf(tableData) :
               kept.id = cell.id => kept.value = cell.value
        ELSE cell.id \in CellIds(tableData)

\* The text is an integer's: an optional sign, then digits and nothing else
IsIntegerText(text) ==
  LET body == IF text # "" /\ Head(text) \in {"-", "+"} THEN Tail(text)
              ELSE text
  IN  body # "" /\ SkipDigits(body, 1) = Len(body) + 1

\* The table after the edit is the table before it with value in the cells
\* of that id and nothing else changed.
OnlyCellChanged(before, after, id, value) ==
  /\ after.headers = before.headers
  /\ DOMAIN after.rows = DOMAIN before.rows
  /\ \A r \in DOMAIN before.rows :
       /\ DOMAIN after.rows[r] = DOMAIN before.rows[r]
       /\ \A c \in DOMAIN before.rows[r] :
            after.rows[r][c] =
              IF before.rows[r][c].id = id
                THEN [before.rows[r][c] EXCEPT !.value = value]
                ELSE before.rows[r][c]

\* C34: saveEdit with an integer in the input and a cell being edited sets
\* the value of the cell of that id and leaves every other cell, the headers
\* and the order of the rows as they were; with a text that is not an integer,
\* or with no cell being edited, it does not call onDataChange and the table
\* stays as it was.
C34_SaveEditChangesOneCell ==
  lastEdit.n > 0 =>
    IF lastEdit.editingCell # Null /\ IsIntegerText(lastEdit.editValue)
      THEN /\ lastEdit.called
           /\ OnlyCellChanged(lastEdit.tableBefore, lastEdit.tableAfter,
                              lastEdit.editingCell[1],
                              JsInt(ParseInt(lastEdit.editValue).n))
      ELSE /\ ~lastEdit.called
           /\ lastEdit.tableAfter = lastEdit.tableBefore

\* The same with "an integer input" read as parseInt reads it: a text
\* parseInt finds a number in.
SaveEditAsParsed ==
  lastEdit.n > 0 =>
    IF lastEdit.editingCell # Null /\ ~ParseInt(lastEdit.editValue).nan
      THEN /\ lastEdit.called
           /\ OnlyCellChanged(lastEdit.tableBefore, lastEdit.tableAfter,
                              lastEdit.editingCell[1],
                              JsInt(ParseInt(lastEdit.editValue).n))
      ELSE /\ ~lastEdit.called
           /\ lastEdit.tableAfter = lastEdit.tableBefore

(***************************************************************************)
(* The commands of the rule-based help reference.                          *)
(***************************************************************************)
\* One command of each shape the help text lists: "add row [values]",
\* "set row X col Y to Z", "delete row X", "add column [name]",
\* "fill column X with Y" and "help".
HelpInputs ==
  {"add row 10, 20, 30", "set row 1 col 2 to 50", "delete row 2",
   "add column", "add column Price", "fill column 1 with 5", "help"}

HelpOutcomes ==
  {Rejection(500, "The server had an error while processing your request")}

NextHelp == NextOver(HelpInputs, HelpOutcomes, PlainDraws(0))

SpecHelp == Init /\ [][NextHelp]_vars

\* C35: a command of a shape the help reference lists, given to the
\* rule-based interpreter, does not end in the "I didn't understand that
\* command" result.
C35_HelpShapesRecognized ==
  (RuleBasedRan /\ last.command \in HelpInputs)
    => ~Includes(last.response, "I didn't understand that command")

(***************************************************************************)
(* Longer runs of rule-based commands.                                     *)
(***************************************************************************)
MaxRulesRun == 4

RulesInputs ==
  {"add row 10, 20, 30", "add row 1, 2", "add column", "delete row 1"}

RulesOutcomes ==
  {Rejection(500, "The server had an error while processing your request")}

NextRules ==
  NextWithin(RulesInputs, RulesOutcomes, PlainDraws(0), MaxRulesRun)

SpecRules == Init /\ [][NextRules]_vars

\* C32: in an instance that is not configured, after any sequence of
\* commands from the seed table, every row has as many cells as there are
\* headers, there are at least three headers, and no command has thrown.
C32_RuleBasedKeepsShape ==
  ~isConfigured =>
    /\ Len(tableData.headers) >= 3
    /\ \A r \in 1..Len(tableData.rows) :
         Len(tableData.rows[r]) = Len(tableData.headers)
    /\ ~last.rejected

\* 'delete row 1', 'add row 10, 20, 30', then 'add column' on the table with
\* the new row: every row has four cells.
C32_Witness ==
  /\ ~isConfigured
  /\ last.n = 3
  /\ last.command = "add column"
  /\ last.newData # Null
  /\ Len(tableData.headers) = 4
  /\ Len(tableData.rows) = 3
  /\ tableData.rows[3][1].value = JsInt(10)
  /\ Len(tableData.rows[3]) = 4

\* 'add column' on the table all of whose rows have been deleted
AddColumnOnEmptyTable ==
  /\ ~isConfigured
  /\ last.command = "add column"
  /\ last.currentData.rows = <<>>
  /\ last.newData # Null

(***************************************************************************)
(* The chat: the timers App.handleSendMessage sets for its AI messages.    *)
(***************************************************************************)
\* setTimeout(() => setChatMessages(prev => [...prev, aiMessage]), 300),
\* and the same for errorMessage
ReplyTimeout(message) ==
  /\ message \in timers
  /\ chatMessages' = Append(chatMessages, message)
  /\ timers' = timers \ {message}
  /\ UNCHANGED <<tableData, isConfigured, hasQuotaIssue, isLoading, inFlight,
                 sent, nextId, last, editVars>>

ChatInputs == {"add column", "help"}

\* The provider fails, or answers with an add_row of no values, after which
\* the rule-based 'add column' throws and processCommand rejects.
ChatOutcomes ==
  {Rejection(500, "The server had an error while processing your request"),
   AddRowReply(<<>>)}

\* The provider's answer to call number n arrives
SettleCall(n) ==
  \E call \in inFlight, outcome \in ChatOutcomes, draw \in PlainDraws(0) :
    call.n = n /\ Settle(call, outcome, DrawAt(draw, nextId))

\* The timer of the AI message of call number n fires
ReplyTimeoutOf(n) ==
  \E message \in timers : message.n = n /\ ReplyTimeout(message)

NextChat ==
  \/ NextOver(ChatInputs, ChatOutcomes, PlainDraws(0))
  \/ \E message \in timers : ReplyTimeout(message)

\* Every pending request is answered or fails, and every timer fires.
FairChat ==
  \A n \in 1..MaxDispatches :
    WF_vars(SettleCall(n)) /\ WF_vars(ReplyTimeoutOf(n))

SpecChat == Init /\ [][NextChat]_vars /\ FairChat

\* The places of the chat where the user message, and the AI message, of
\* call number n stand
UserAt(n) ==
  {i \in DOMAIN chatMessages :
     chatMessages[i].sender = "user" /\ chatMessages[i].n = n}

AiAt(n) ==
  {i \in DOMAIN chatMessages :
     chatMessages[i].sender = "ai" /\ chatMessages[i].n = n}

\* The AI messages of call number n, in the chat or waiting for their timer
AiOf(n) ==
  {chatMessages[i] : i \in AiAt(n)} \cup {m \in timers : m.n = n}

\* At most one AI message for call n, after the call's user message, and, as
\* long as the call is the one that settled last, with the response of the
\* call or the error text if the call was rejected.
OneReply(n) ==
  /\ Cardinality(AiAt(n)) + Cardinality({m \in timers : m.n = n}) <= 1
  /\ \A i \in AiAt(n) : \E j \in UserAt(n) : j < i
  /\ last.n = n =>
       \A m \in AiOf(n) :
         m.content = IF last.rejected THEN ErrorContent ELSE last.response

\* C33: every user message sent through handleSendMessage is followed, once
\* its request has completed or failed, by exactly one AI message, the
\* response of the dispatch or the error text when processCommand rejects;
\* the user message stands in the chat before its reply.
C33_EveryMessageAnswered ==
  \A n \in 1..MaxDispatches :
    /\ [](OneReply(n))
    /\ (UserAt(n) # {}) ~> (AiAt(n) # {})

\* processCommand rejected the second call, and the chat shows the error text
\* after the call's message.
C33_Witness ==
  /\ Len(chatMessages) = 4
  /\ UserAt(2) # {}
  /\ \E i \in AiAt(2) : chatMessages[i].content = ErrorContent
  /\ \E i \in AiAt(1) : chatMessages[i].content # ErrorContent
=============================================================================
